---- MODULE Spec2Model ----
(***************************************************************************)
(* Model of the codebase-analysis pipeline of the Teach Me extension:      *)
(*   services/dirTree.js         scanner, path filter, tree formatter      *)
(*   services/analysisCache.js   the single-record cache store             *)
(*   services/analysisService.js the two-stage orchestrator                *)
(*                                                                         *)
(* Text is modelled as a sequence of tokens (glyphs, names, line breaks),  *)
(* names and patterns as sequences of characters where the code looks at   *)
(* their characters.                                                       *)
(***************************************************************************)
EXTENDS Integers, Sequences, FiniteSets, TLC

(***************************************************************************)
(* Bounds of the model.                                                    *)
(***************************************************************************)
\* Entries (files and directories) a generated workspace holds at most.
MaxEntries == 3
\* Directory levels below the root a generated workspace uses (root = level 0).
MaxLevel == 1
\* Readings of the wall clock (timestamps 0..MaxClock).
MaxClock == 2
\* Tool calls one model response carries at most.
MaxToolCalls == 1

(***************************************************************************)
(* Sequence helpers.                                                       *)
(***************************************************************************)
Last(s) == s[Len(s)]

Front(s) == SubSeq(s, 1, Len(s) - 1)

Range(s) == {s[i] : i \in 1..Len(s)}

RECURSIVE Concat(_)
\* The concatenation of a sequence of sequences.
Concat(ss) ==
    IF ss = <<>> THEN <<>> ELSE Head(ss) \o Concat(Tail(ss))

\* n copies of the sequence s.
Repeat(s, n) ==
    [p \in 1..(n * Len(s)) |-> s[((p - 1) % Len(s)) + 1]]

\* String.prototype.startsWith / endsWith / includes on character sequences.
StartsWith(s, p) ==
    Len(p) <= Len(s) /\ SubSeq(s, 1, Len(p)) = p

EndsWith(s, p) ==
    Len(p) <= Len(s) /\ SubSeq(s, Len(s) - Len(p) + 1, Len(s)) = p

Includes(s, p) ==
    \E i \in 1..(Len(s) - Len(p) + 1) : SubSeq(s, i, i + Len(p) - 1) = p

\* The characters String.prototype.trim removes.
WhiteSpace == {" ", "\t", "\n", "\r"}

RECURSIVE TrimStart(_)
TrimStart(s) ==
    IF s # <<>> /\ Head(s) \in WhiteSpace THEN TrimStart(Tail(s)) ELSE s

RECURSIVE TrimEnd(_)
TrimEnd(s) ==
    IF s # <<>> /\ Last(s) \in WhiteSpace THEN TrimEnd(Front(s)) ELSE s

\* String.prototype.trim.
Trim(s) == TrimEnd(TrimStart(s))

(***************************************************************************)
(* Names.  A name is an atomic string; Chars gives its characters.         *)
(***************************************************************************)
CacheFileName == ".kth-analysis-cache.json"

GitignoreName == ".gitignore"

PackageJsonName == "package.json"

\* basename of the workspace root.
RootName == "ws"

\* Names a generated workspace gives its own files and directories.
Names == {"a", "b", "c"}

\* Every name a directory listing can hold, in String.prototype.localeCompare
\* order (punctuation sorts before letters, a prefix before its extensions).
NameOrder ==
    <<".git", ".gitignore", ".kth-analysis-cache.json", ".next", ".vscode",
      "a", "a.txt", "b", "build", "build.log", "c", "dist", "distro",
      "index.js", "node_modules", "out", "package.json", "src", "x.js">>

NameRank(n) == CHOOSE i \in 1..Len(NameOrder) : NameOrder[i] = n

Chars(n) ==
    CASE n = ".git" -> <<".", "g", "i", "t">>
      [] n = ".gitignore" ->
           <<".", "g", "i", "t", "i", "g", "n", "o", "r", "e">>
      [] n = ".kth-analysis-cache.json" ->
           <<".", "k", "t", "h", "-", "a", "n", "a", "l", "y", "s", "i",
             "s", "-", "c", "a", "c", "h", "e", ".", "j", "s", "o", "n">>
      [] n = ".next" -> <<".", "n", "e", "x", "t">>
      [] n = ".vscode" -> <<".", "v", "s", "c", "o", "d", "e">>
      [] n = "a" -> <<"a">>
      [] n = "a.txt" -> <<"a", ".", "t", "x", "t">>
      [] n = "b" -> <<"b">>
      [] n = "build" -> <<"b", "u", "i", "l", "d">>
      [] n = "build.log" -> <<"b", "u", "i", "l", "d", ".", "l", "o", "g">>
      [] n = "c" -> <<"c">>
      [] n = "dist" -> <<"d", "i", "s", "t">>
      [] n = "distro" -> <<"d", "i", "s", "t", "r", "o">>
      [] n = "index.js" -> <<"i", "n", "d", "e", "x", ".", "j", "s">>
      [] n = "node_modules" ->
           <<"n", "o", "d", "e", "_", "m", "o", "d", "u", "l", "e", "s">>
      [] n = "out" -> <<"o", "u", "t">>
      [] n = "package.json" ->
           <<"p", "a", "c", "k", "a", "g", "e", ".", "j", "s", "o", "n">>
      [] n = "src" -> <<"s", "r", "c">>
      [] n = "x.js" -> <<"x", ".", "j", "s">>

(***************************************************************************)
(* Workspace: the directory tree under the root, the .gitignore lines, the  *)
(* package.json text and the directories that cannot be read (readdirSync  *)
(* throws on them).                                                        *)
(***************************************************************************)
NoFile == "NoFile"

Dir(p) == [path |-> p, type |-> "directory"]

File(p) == [path |-> p, type |-> "file"]

\* The .gitignore of the root: whether it exists, and its lines.
Gitignore(lines) == [exists |-> TRUE, lines |-> lines]

NoGitignore == [exists |-> FALSE, lines |-> <<>>]

\* A workspace with the given entries and neither .gitignore nor package.json.
Workspace(es) ==
    [entries |-> es, gitignore |-> NoGitignore, pkg |-> NoFile,
     unreadable |-> {}]

EmptyWorkspace == Workspace({})

(***************************************************************************)
(* dirTree.js: readGitignore                                               *)
(***************************************************************************)
RECURSIVE gitignoreLines(_)
gitignoreLines(lines) ==
    IF lines = <<>> THEN <<>>
    ELSE LET trimmed == Trim(Head(lines))
         IN  IF trimmed = <<>> \/ StartsWith(trimmed, <<"#">>)
             THEN gitignoreLines(Tail(lines))
             ELSE <<trimmed>> \o gitignoreLines(Tail(lines))

readGitignore(w) ==
    IF ~w.gitignore.exists THEN <<>> ELSE gitignoreLines(w.gitignore.lines)

(***************************************************************************)
(* dirTree.js: matchesPattern.  The pattern is turned into a regular       *)
(* expression, here a sequence of tokens: a literal character, "star" for  *)
(* any run within a segment, "dstar" for any run, "q" for one character    *)
(* of a segment.  Only ".", "*" and "?" are rewritten; every other         *)
(* character reaches the RegExp constructor as it is.  The patterns of the *)
(* model are written with letters, ".", "_", "*", "?", "/", "!" and "(";   *)
(* an opening parenthesis is never closed, so the constructor throws       *)
(* (SyntaxError: unterminated group).                                      *)
(***************************************************************************)
\* new RegExp(...) of the rewritten pattern throws.
regexSyntaxError(p) == "(" \in Range(p)

RECURSIVE regexTokens(_)
regexTokens(p) ==
    IF p = <<>> THEN <<>>
    ELSE IF StartsWith(p, <<"*", "*">>)
         THEN <<[t |-> "dstar"]>> \o regexTokens(SubSeq(p, 3, Len(p)))
    ELSE IF Head(p) = "*" THEN <<[t |-> "star"]>> \o regexTokens(Tail(p))
    ELSE IF Head(p) = "?" THEN <<[t |-> "q"]>> \o regexTokens(Tail(p))
    ELSE <<[t |-> "lit", c |-> Head(p)]>> \o regexTokens(Tail(p))

\* The positions (index of the next unread character) one token leads to
\* from the positions P of text.
regexStep(tok, text, P) ==
    CASE tok.t = "lit" ->
           {i + 1 : i \in {j \in P : j <= Len(text) /\ text[j] = tok.c}}
      [] tok.t = "q" ->
           {i + 1 : i \in {j \in P : j <= Len(text) /\ text[j] # "/"}}
      [] tok.t = "star" ->
           {k \in 1..(Len(text) + 1) :
               \E i \in P : i <= k /\ \A m \in i..(k - 1) : text[m] # "/"}
      [] tok.t = "dstar" ->
           {k \in 1..(Len(text) + 1) : \E i \in P : i <= k}

RECURSIVE regexEnd(_, _, _)
regexEnd(toks, text, P) ==
    IF toks = <<>> THEN P
    ELSE regexEnd(Tail(toks), text, regexStep(Head(toks), text, P))

\* RegExp anchored at both ends, tested on text
regexTestFull(toks, text) == (Len(text) + 1) \in regexEnd(toks, text, {1})

\* RegExp anchored at the start, tested on text
regexTestPrefix(toks, text) == regexEnd(toks, text, {1}) # {}

\* RegExp not anchored, tested on text
regexTest(toks, text) == regexEnd(toks, text, 1..(Len(text) + 1)) # {}

matchesPattern(filePath, pathSegments, pattern) ==
    IF StartsWith(pattern, <<"!">>) THEN FALSE
    ELSE
      LET isDirectoryPattern == EndsWith(pattern, <<"/">>)
          cleanPattern == IF isDirectoryPattern THEN Front(pattern) ELSE pattern
          isRootAnchored == StartsWith(cleanPattern, <<"/">>)
          normalizedPattern ==
              IF isRootAnchored THEN Tail(cleanPattern) ELSE cleanPattern
          regexPattern == regexTokens(normalizedPattern)
      IN  IF Includes(normalizedPattern, <<"*", "*">>)
          THEN regexTest(regexPattern, filePath)
          ELSE IF \E i \in 1..Len(pathSegments) :
                      regexTestFull(regexPattern, pathSegments[i])
          THEN TRUE
          ELSE IF isRootAnchored THEN regexTestPrefix(regexPattern, filePath)
          ELSE \/ \E i \in 1..Len(pathSegments) :
                      regexTest(regexPattern, pathSegments[i])
               \/ regexTest(regexPattern, filePath)

\* matchesPattern throws: a pattern that is not a negation is made into a
\* RegExp before anything is tested (line 36 or line 40).
patternThrows(pattern) ==
    /\ ~StartsWith(pattern, <<"!">>)
    /\ regexSyntaxError(pattern)

RECURSIVE joinPath(_)
\* The relative path as text: the names' characters joined by "/".
joinPath(relPath) ==
    IF relPath = <<>> THEN <<>>
    ELSE IF Len(relPath) = 1 THEN Chars(relPath[1])
    ELSE Chars(Head(relPath)) \o <<"/">> \o joinPath(Tail(relPath))

shouldIgnore(relPath, gitignorePatterns) ==
    IF Len(gitignorePatterns) = 0 THEN FALSE
    ELSE LET normalizedPath == joinPath(relPath)
             pathSegments == [i \in 1..Len(relPath) |-> Chars(relPath[i])]
         IN  \E k \in 1..Len(gitignorePatterns) :
                 matchesPattern(normalizedPath, pathSegments, gitignorePatterns[k])

\* shouldIgnore throws: the first pattern that throws comes before any
\* pattern that matches.
shouldIgnoreThrows(relPath, gitignorePatterns) ==
    LET normalizedPath == joinPath(relPath)
        pathSegments == [i \in 1..Len(relPath) |-> Chars(relPath[i])]
    IN  \E k \in 1..Len(gitignorePatterns) :
            /\ patternThrows(gitignorePatterns[k])
            /\ \A j \in 1..(k - 1) :
                  ~matchesPattern(normalizedPath, pathSegments,
                                  gitignorePatterns[j])

(***************************************************************************)
(* dirTree.js: readDirectoryTree                                           *)
(***************************************************************************)
\* The depth beyond which readDirectoryTree returns at once.
MaxScanDepth == 5

skipDirs == {"node_modules", ".git", ".vscode", "dist", "build", ".next", "out"}

\* fs.readdirSync(dirPath, {withFileTypes: true}): the entries of the directory
\* dirPath (a sequence of names below the root).  The root also holds the
\* .gitignore, package.json and cache record files when they exist.
readdirSync(w, cachePresent, dirPath) ==
    {[name |-> Last(e.path), type |-> e.type] :
        e \in {x \in w.entries : Len(x.path) = Len(dirPath) + 1
                                  /\ Front(x.path) = dirPath}}
    \cup (IF dirPath # <<>> THEN {}
          ELSE (IF ~w.gitignore.exists THEN {}
                ELSE {[name |-> GitignoreName, type |-> "file"]})
               \cup (IF w.pkg = NoFile THEN {}
                     ELSE {[name |-> PackageJsonName, type |-> "file"]})
               \cup (IF cachePresent
                     THEN {[name |-> CacheFileName, type |-> "file"]}
                     ELSE {}))

\* The comparator of entries.sort: directories first, then by name.
sortsBefore(a, b) ==
    IF (a.type = "directory") = (b.type = "directory")
    THEN NameRank(a.name) < NameRank(b.name)
    ELSE a.type = "directory"

RECURSIVE sortEntries(_)
sortEntries(S) ==
    IF S = {} THEN <<>>
    ELSE LET first == CHOOSE a \in S : \A b \in S \ {a} : sortsBefore(a, b)
         IN  <<first>> \o sortEntries(S \ {first})

\* A scanner without the depth bound.
tooDeep_Never(depth) == FALSE

\* "if (depth > 5) return tree"
tooDeep(depth) == depth > MaxScanDepth

\* A scanner that descends into every directory.
isSkipped_Never(dirName, depth) == FALSE

\* "if (skipDirs.includes(dirName) && depth > 0) return tree"
isSkipped(dirName, depth) == dirName \in skipDirs /\ depth > 0

\* A scanner that does not leave the cache file out.
isCacheFile_Never(name) == FALSE

\* "Always ignore the cache file to prevent it from affecting the hash".
isCacheFile(name) == name = CacheFileName

RECURSIVE readDirectoryTree(_, _, _, _, _, _)
RECURSIVE scanEntries(_, _, _, _, _, _, _, _)
\* The for loop of readDirectoryTree over the sorted entries, from entry i on.
scanEntries(w, cachePresent, dirPath, entries, i, tree, depth, gitignorePatterns) ==
    IF i > Len(entries) THEN tree
    ELSE
      LET entry == entries[i]
          relPath == Append(dirPath, entry.name)
          item == [name |-> entry.name, path |-> relPath,
                   type |-> entry.type, depth |-> depth]
          rest(t) == scanEntries(w, cachePresent, dirPath, entries, i + 1, t,
                                 depth, gitignorePatterns)
      IN  IF isCacheFile(entry.name) THEN rest(tree)
          ELSE IF shouldIgnoreThrows(relPath, gitignorePatterns)
               THEN tree                            \* catch: "Skipping"
          ELSE IF shouldIgnore(relPath, gitignorePatterns) THEN rest(tree)
          ELSE IF entry.type = "directory"
               THEN rest(readDirectoryTree(w, cachePresent, relPath,
                                           Append(tree, item), depth + 1,
                                           gitignorePatterns))
               ELSE rest(Append(tree, item))

readDirectoryTree(w, cachePresent, dirPath, tree, depth, gitignorePatterns) ==
    IF tooDeep(depth) THEN tree
    ELSE
      LET dirName == IF dirPath = <<>> THEN RootName ELSE Last(dirPath)
      IN  IF isSkipped(dirName, depth) THEN tree
          ELSE IF dirPath \in w.unreadable THEN tree   \* catch: "Skipping"
          ELSE scanEntries(w, cachePresent, dirPath,
                           sortEntries(readdirSync(w, cachePresent, dirPath)),
                           1, tree, depth, gitignorePatterns)

(***************************************************************************)
(* dirTree.js: formatTree.  The text is a sequence of tokens; the glyphs   *)
(* of the source are written in ASCII.                                     *)
(***************************************************************************)
NL == "\n"

\* The vertical connector and the blank indentation unit (4 characters each).
VBar == "|   "

Blank == "    "

\* The last-child and the mid-child connector.
LastChild == "+-- "

MidChild == "|-- "

DirIcon == "[dir]"

FileIcon == "[file]"

Fence == "'''"

EmptyTreeText == <<"The workspace directory is empty.">>

\* Whether a later item lies at depth d before any item above depth d:
\* the two inner loops of formatTree.
laterAtDepth(treeItems, i, d) ==
    \E j \in (i + 1)..Len(treeItems) :
        /\ treeItems[j].depth = d
        /\ \A k \in (i + 1)..(j - 1) : treeItems[k].depth > d

\* The indentation of formatTree: one unit for each d with 1 <= d < depth.
treePrefix(treeItems, i) ==
    [d \in 1..(treeItems[i].depth - 1) |->
        IF laterAtDepth(treeItems, i, d) THEN VBar ELSE Blank]

treeLine(treeItems, i) ==
    LET item == treeItems[i]
        isLastSibling == ~laterAtDepth(treeItems, i, item.depth)
    IN  treePrefix(treeItems, i)
        \o <<IF isLastSibling THEN LastChild ELSE MidChild>>
        \o <<IF item.type = "directory" THEN DirIcon ELSE FileIcon,
             " ", item.name, NL>>

formatTree(treeItems, rootName) ==
    IF Len(treeItems) = 0 THEN EmptyTreeText
    ELSE <<DirIcon, " **", rootName, "**", NL, Fence, NL>>
         \o Concat([i \in 1..Len(treeItems) |-> treeLine(treeItems, i)])
         \o <<Fence>>

(***************************************************************************)
(* analysisCache.js: generateCodebaseHash                                  *)
(***************************************************************************)
RECURSIVE normalizeLineEndings(_)
\* Every CR LF pair and every remaining CR becomes LF.
normalizeLineEndings(text) ==
    IF text = <<>> THEN <<>>
    ELSE IF StartsWith(text, <<"\r", NL>>)
         THEN <<NL>> \o normalizeLineEndings(SubSeq(text, 3, Len(text)))
    ELSE IF Head(text) = "\r" THEN <<NL>> \o normalizeLineEndings(Tail(text))
    ELSE <<Head(text)>> \o normalizeLineEndings(Tail(text))

\* The MD5 digest of a text, taken to be free of collisions: the digest
\* stands for exactly the text digested.
md5(text) == <<"md5">> \o text

generateCodebaseHash(treeText) ==
    md5(normalizeLineEndings(Trim(treeText)))

(***************************************************************************)
(* Strings of the analysis.  A text value is a record [k, i, fc]:          *)
(*   k = "raw"         the characters of sample i, as the model sent them  *)
(*   k = "pretty"      JSON.stringify(JSON.parse(sample i), null, 2)       *)
(*   k = "structured"  JSON.stringify of the object built from the label   *)
(*                     lines and keywords of sample i                      *)
(*   k = "undefined"   no string at all (a field that is missing)          *)
(* and fc is the set of file paths whose contents were merged into it.     *)
(***************************************************************************)
Text(k, i, fc) == [k |-> k, i |-> i, fc |-> fc]

Raw(i) == Text("raw", i, {})

Undefined == Text("undefined", 0, {})

EmptyString == Raw(0)

\* The response below which a reply counts as brief (characters).
BriefLimit == 200

\* The characters of the sample replies of the remote model:
\*   0 empty, 1 blank, 2 brief prose, 3 a JSON object with a features array,
\*   4 prose longer than BriefLimit, 5 brief prose naming a technology,
\*   6 a fenced mermaid diagram, 7 a JSON object with a string that holds a
\*   fenced word.
SampleChars(i) ==
    CASE i = 0 -> <<>>
      [] i = 1 -> <<" ", "\n">>
      [] i = 2 -> <<"o", "k">>
      [] i = 3 -> <<"{", "\"", "f", "e", "a", "t", "u", "r", "e", "s", "\"",
                    ":", "[", "\"", "R", "e", "a", "c", "t", "\"", "]", "}">>
      [] i = 4 -> Repeat(<<"x">>, BriefLimit + 1)
      [] i = 5 -> <<"u", "s", "e", "s", " ", "r", "e", "a", "c", "t">>
      [] i = 6 -> <<Fence, "m", "e", "r", "m", "a", "i", "d", NL, "g", NL,
                    Fence>>
      [] i = 7 -> <<"{", "\"", "d", "\"", ":", "\"", Fence, "x", Fence, "\"",
                    "}">>

Samples == 0..7

\* JSON.parse(SampleChars(i)): samples 3 and 7 are the JSON texts; the value
\* of sample 3 is an object whose features field is the array ["React"], that
\* of sample 7 an object without features.
jsonParses(i) == i \in {3, 7}

parsedFeatures(i) == IF i = 3 THEN <<"React">> ELSE <<>>

\* !s for a string or a missing value: undefined and "" are falsy.
falsy(t) == t.k = "undefined" \/ (t.k = "raw" /\ SampleChars(t.i) = <<>>)

\* s.trim().length === 0
isBlank(t) == t.k = "raw" /\ Trim(SampleChars(t.i)) = <<>>

(***************************************************************************)
(* analysisCache.js.  The record file is absent ("none"), holds text that  *)
(* is not JSON ("garbage"), the JSON text null ("null"), or a JSON object  *)
(* ("object") with the fields below; a field an object lacks is Undefined, *)
(* NoHash, <<>>, {} or NoTimestamp.                                        *)
(***************************************************************************)
NoHash == <<"undefined">>

NoTimestamp == -1

CacheFile(kind, h, a, f, fc, ts) ==
    [kind |-> kind, codebaseHash |-> h, detailedAnalysis |-> a,
     features |-> f, fileContents |-> fc, timestamp |-> ts]

NoCacheFile == CacheFile("none", NoHash, Undefined, <<>>, {}, NoTimestamp)

GarbageFile == CacheFile("garbage", NoHash, Undefined, <<>>, {}, NoTimestamp)

JsonNullFile == CacheFile("null", NoHash, Undefined, <<>>, {}, NoTimestamp)

\* fs.existsSync(cachePath)
existsSync(file) == file.kind # "none"

\* What loadCache returns: null, or the record's four fields.
CacheResult(found, a, f, fc, ts) ==
    [found |-> found, detailedAnalysis |-> a, features |-> f,
     fileContents |-> fc, timestamp |-> ts]

Null == CacheResult(FALSE, Undefined, <<>>, {}, NoTimestamp)

\* A loadCache that never finds the hashes different.
hashMismatch_Never(cached, current) == FALSE

\* The test "cache.codebaseHash !== currentCodebaseHash".
hashMismatch(cached, current) == cached # current

\* loadCache(currentCodebaseHash) on the file, with or without a workspace
\* folder (getCacheFilePath returns null without one).
loadCache(file, folderOpen, currentCodebaseHash) ==
    IF ~folderOpen \/ ~existsSync(file) THEN Null
    ELSE IF file.kind = "garbage" THEN Null        \* JSON.parse throws
    ELSE IF file.kind = "null" THEN Null           \* cache.codebaseHash throws
    ELSE IF falsy(file.detailedAnalysis) THEN Null
    ELSE IF hashMismatch(file.codebaseHash, currentCodebaseHash) THEN Null
    ELSE CacheResult(TRUE, file.detailedAnalysis, file.features,
                     file.fileContents, file.timestamp)

\* The object saveCache writes: new Date().toISOString() is the clock's reading.
cacheData(now, codebaseHash, detailedAnalysis, features, fileContents) ==
    CacheFile("object", codebaseHash, detailedAnalysis, features,
              fileContents, now)

\* A saveCache that adds to the record in the file instead of replacing it.
saveCache_Merging(file, folderOpen, now, codebaseHash, detailedAnalysis, features, fileContents) ==
    IF ~folderOpen THEN file
    ELSE cacheData(now, codebaseHash, detailedAnalysis, features,
                   fileContents \cup file.fileContents)

\* The file after saveCache(codebaseHash, detailedAnalysis, features,
\* fileContents) at time now: the whole file is replaced.
saveCache(file, folderOpen, now, codebaseHash, detailedAnalysis, features, fileContents) ==
    IF ~folderOpen THEN file
    ELSE cacheData(now, codebaseHash, detailedAnalysis, features, fileContents)

\* The file after clearCache().
clearCache(file, folderOpen) ==
    IF folderOpen /\ existsSync(file) THEN NoCacheFile ELSE file

(***************************************************************************)
(* State.                                                                  *)
(***************************************************************************)
VARIABLES
    ws,              \* the workspace: entries, .gitignore lines, package.json
    folderOpen,      \* vscode.workspace.workspaceFolders is not empty
    cacheFile,       \* the content of <root>/.kth-analysis-cache.json
    clock,           \* the reading of the wall clock
    cachedResult,    \* what the last loadCache returned
    tree,            \* the entries of the last scan
    treeText,        \* the text formatTree made of them
    codebaseHash,    \* its hash
    scanned,         \* a scan of the workspace as it is now has been made
    prevScan,        \* history: the scan before the last, of the same workspace
    cacheTouched,    \* history: a cache record file changed since the last scan
    filterCall,      \* history: the last call of the path filter and its outcome
    progress,        \* history: what the last scan passed to its progress callback
    toolCall,        \* history: the last call of _executeTool and its result
    runs,            \* two invocations of performAnalysis under way at once
    lastCall,        \* history: the last call of the cache store and its arguments
    remembered,      \* history: an earlier saveCache call and the file it left
    openai,          \* a client of the remote model is configured
    pc,              \* where performAnalysis is
    detailedAnalysis,\* performAnalysis: detailedAnalysis
    features,        \* performAnalysis: features
    stage1Content,   \* performStage1Analysis: stage1Content (a sample)
    fileContentsMap, \* performStage1Analysis: the paths in fileContentsMap
    iteration,       \* performStage1Analysis: iteration
    currentMessages, \* performStage1Analysis: the messages of the latest
                     \* request and those put after them since
    result,          \* what performAnalysis returned
    s1Requests,      \* history: Stage 1 completion requests sent in this run
    s2Requests,      \* history: Stage 2 completion requests sent in this run
    toolExecs,       \* history: tool calls executed in this run
    saves,           \* history: saveCache calls made in this run
    fileAtStart,     \* history: the record file when this run began
    lastContent,     \* history: the content of the latest Stage 1 response
    loopExit,        \* history: how Stage 1 left its tool loop
    s1Outcome,       \* history: how Stage 1 ended in this run
    stage2Input,     \* history: what performStage2Polishing was called with
    remoteErrors,    \* history: the completion requests that threw in this run
    savedRun         \* history: the last run that saved: its workspace, its
                     \* scan and what it called performStage2Polishing with

vars ==
    <<ws, folderOpen, cacheFile, clock, cachedResult, tree, treeText,
      codebaseHash, scanned, prevScan, cacheTouched, filterCall, progress,
      toolCall, runs,
      lastCall, remembered, openai, pc, detailedAnalysis, features, stage1Content, fileContentsMap,
      iteration, currentMessages, result, s1Requests, s2Requests, toolExecs, saves,
      fileAtStart, lastContent, loopExit, s1Outcome, stage2Input,
      remoteErrors, savedRun>>

scanApiVars == <<filterCall, progress, toolCall, runs>>

treeVars ==
    <<ws, tree, treeText, codebaseHash, scanned, prevScan, cacheTouched,
      scanApiVars>>

cacheApiVars == <<cachedResult, lastCall, remembered>>

\* The variables of one run of performAnalysis and their history.
runVars ==
    <<pc, detailedAnalysis, features, stage1Content, fileContentsMap,
      iteration, currentMessages, result, s1Requests, s2Requests, toolExecs, saves,
      fileAtStart, lastContent, loopExit, s1Outcome, stage2Input,
      remoteErrors>>

pipeVars == <<openai, runVars, savedRun>>

(***************************************************************************)
(* The values the variables of a run have before performAnalysis is        *)
(* called.                                                                 *)
(***************************************************************************)
\* A content or reasoning field that is null or missing.
NoContent == -1

NoResult == [markdown |-> Undefined, features |-> <<>>, fromCache |-> FALSE]

NoStage2Input == [detailedAnalysis |-> Undefined, features |-> <<>>]

NoSavedRun ==
    [valid |-> FALSE, ws |-> EmptyWorkspace, tree |-> <<>>,
     stage2Input |-> NoStage2Input]

InitRun ==
    /\ pc = "idle"
    /\ detailedAnalysis = EmptyString
    /\ features = <<>>
    /\ stage1Content = 0
    /\ fileContentsMap = {}
    /\ iteration = 0
    /\ currentMessages = <<>>
    /\ result = NoResult
    /\ s1Requests = 0
    /\ s2Requests = 0
    /\ toolExecs = 0
    /\ saves = 0
    /\ fileAtStart = NoCacheFile
    /\ lastContent = NoContent
    /\ loopExit = "none"
    /\ s1Outcome = "none"
    /\ stage2Input = NoStage2Input
    /\ remoteErrors = {}

(***************************************************************************)
(* The cache store called directly: any sequence of saveCache, loadCache   *)
(* and clearCache calls, edits of the record file from outside and ticks   *)
(* of the clock.                                                           *)
(***************************************************************************)
\* Hashes and analyses the calls are made with.
HashChoices == {md5(EmptyTreeText), md5(<<"other">>)}

AnalysisChoices == {Raw(2), Text("pretty", 3, {})}

SaveArgs(h, a, f, fc) ==
    [codebaseHash |-> h, detailedAnalysis |-> a, features |-> f,
     fileContents |-> fc]

\* The arguments saveCache is called with.
SaveArgChoices ==
    {SaveArgs(md5(EmptyTreeText), Raw(2), <<>>, {}),
     SaveArgs(md5(EmptyTreeText), Text("pretty", 3, {}), <<"React">>, {"f"}),
     SaveArgs(md5(<<"other">>), Text("pretty", 3, {}), <<"React">>, {})}

\* What an edit from outside can leave in the record file.
ExternalFiles ==
    {GarbageFile, JsonNullFile}
    \cup {CacheFile("object", h, a, <<>>, {}, 0) :
            h \in HashChoices \cup {NoHash},
            a \in AnalysisChoices \cup {Undefined, EmptyString}}

NoArgs == SaveArgs(NoHash, Undefined, <<>>, {})

Call(op, args) == [op |-> op, args |-> args]

NoCall == Call("none", NoArgs)

NotRemembered == [valid |-> FALSE, args |-> NoArgs, file |-> NoCacheFile]

NoScan ==
    [valid |-> FALSE, tree |-> <<>>, text |-> <<>>, hash |-> NoHash,
     cacheOps |-> FALSE]

\* A call of the path filter: its arguments and how it ended ("ignored",
\* "kept" or "throws").
FilterCall(op, relPath, patterns, outcome) ==
    [op |-> op, relPath |-> relPath, patterns |-> patterns,
     outcome |-> outcome]

NoFilterCall == FilterCall("none", <<>>, <<>>, "kept")

\* Whether the scan was given a progress callback, and what it passed to it.
Progress(given, reports) == [given |-> given, reports |-> reports]

NoProgress == Progress(FALSE, <<>>)

\* What _executeTool returns: success with the path of the file whose text
\* the result holds (cut to the limit or not), or an error.
ToolResult(success, error, file, truncated) ==
    [success |-> success, error |-> error, file |-> file,
     truncated |-> truncated]

ToolError(error) == ToolResult(FALSE, error, <<>>, FALSE)

\* A call of _executeTool: the function name, the file_path and max_bytes
\* of the arguments (given is false when file_path is missing or no string,
\* max_bytes is -1 when it is missing) and the result.
ToolCallOf(functionName, given, file_path, max_bytes, toolResult) ==
    [functionName |-> functionName, given |-> given, file_path |-> file_path,
     max_bytes |-> max_bytes, result |-> toolResult]

NoToolCall == ToolCallOf("none", FALSE, <<>>, -1, ToolError("none"))

\* An invocation of performAnalysis that runs beside another: where it is,
\* the hash it computed, what loadCache returned to it and the hash the file
\* held then, what it passed to saveCache, when, and as which save in order.
RaceRun(at, hash, loaded, fileHash, args, savedAt, seq) ==
    [pc |-> at, hash |-> hash, loaded |-> loaded, fileHash |-> fileHash,
     args |-> args, savedAt |-> savedAt, seq |-> seq]

NoRaceRun == RaceRun("idle", NoHash, Null, NoHash, NoArgs, NoTimestamp, 0)

NoRuns == [i \in 1..2 |-> NoRaceRun]

CallSave(args, remember) ==
    LET after == saveCache(cacheFile, folderOpen, clock, args.codebaseHash,
                           args.detailedAnalysis, args.features,
                           args.fileContents)
    IN  /\ cacheFile' = after
        /\ lastCall' = Call("save", args)
        /\ cachedResult' = Null
        /\ remembered' =
              IF remember
              THEN [valid |-> TRUE, args |-> args, file |-> after]
              ELSE remembered
        /\ UNCHANGED <<folderOpen, clock, treeVars, pipeVars>>

CallLoad(h) ==
    /\ cachedResult' = loadCache(cacheFile, folderOpen, h)
    /\ lastCall' = Call("load", SaveArgs(h, Undefined, <<>>, {}))
    /\ UNCHANGED <<folderOpen, cacheFile, clock, remembered, treeVars,
                   pipeVars>>

CallClear ==
    /\ cacheFile' = clearCache(cacheFile, folderOpen)
    /\ lastCall' = Call("clear", NoArgs)
    /\ cachedResult' = Null
    /\ UNCHANGED <<folderOpen, clock, remembered, treeVars, pipeVars>>

\* Another program writes, replaces or removes the record file.
ExternalEdit(file) ==
    /\ folderOpen
    /\ cacheFile # file
    /\ cacheFile' = file
    /\ lastCall' = Call("edit", NoArgs)
    /\ cachedResult' = Null
    /\ UNCHANGED <<folderOpen, clock, remembered, treeVars, pipeVars>>

Tick ==
    /\ clock < MaxClock
    /\ clock' = clock + 1
    /\ UNCHANGED <<folderOpen, cacheFile, cachedResult, treeVars, lastCall,
                   remembered, pipeVars>>

InitCache ==
    /\ ws = EmptyWorkspace
    /\ folderOpen \in BOOLEAN
    /\ cacheFile = NoCacheFile
    /\ clock = 0
    /\ cachedResult = Null
    /\ tree = <<>>
    /\ treeText = <<>>
    /\ codebaseHash = NoHash
    /\ scanned = FALSE
    /\ prevScan = NoScan
    /\ filterCall = NoFilterCall
    /\ progress = NoProgress
    /\ toolCall = NoToolCall
    /\ runs = NoRuns
    /\ cacheTouched = FALSE
    /\ lastCall = NoCall
    /\ remembered = NotRemembered
    /\ openai = FALSE
    /\ InitRun
    /\ savedRun = NoSavedRun

NextCache ==
    \/ \E args \in SaveArgChoices, remember \in BOOLEAN :
            CallSave(args, remember)
    \/ \E h \in HashChoices : CallLoad(h)
    \/ CallClear
    \/ \E file \in ExternalFiles \cup {NoCacheFile} : ExternalEdit(file)
    \/ Tick

SpecCache == InitCache /\ [][NextCache]_vars

(***************************************************************************)
(* The scanner on generated workspaces: entries are created and removed,   *)
(* files named like the cache record come and go at any depth, and the     *)
(* workspace is scanned, formatted and hashed.                             *)
(***************************************************************************)
\* _getDirectoryTreeAsText: the entries scanned and the text made of them.
scanWorkspace(w, cachePresent) ==
    readDirectoryTree(w, cachePresent, <<>>, <<>>, 0, readGitignore(w))

NoFolderText == <<"No workspace folder is currently open.">>

getDirectoryTreeAsText(w, open, cachePresent) ==
    IF ~open THEN NoFolderText
    ELSE formatTree(scanWorkspace(w, cachePresent), RootName)

\* The directories of the workspace, the root among them.
Directories(w) == {<<>>} \cup {e.path : e \in {x \in w.entries : x.type = "directory"}}

OwnEntries(w) == {e \in w.entries : Last(e.path) \in Names}

HasChildren(w, p) == \E e \in w.entries : Front(e.path) = p

\* The workspace changed: what was scanned is of no use any more.
ForgetScans ==
    /\ tree' = <<>>
    /\ treeText' = <<>>
    /\ codebaseHash' = NoHash
    /\ scanned' = FALSE
    /\ prevScan' = NoScan
    /\ cacheTouched' = FALSE
    /\ UNCHANGED scanApiVars

AddEntry(parent, name, type) ==
    /\ parent \in Directories(ws)
    /\ Len(parent) <= MaxLevel
    /\ Cardinality(OwnEntries(ws)) < MaxEntries
    /\ ~\E e \in ws.entries : e.path = Append(parent, name)
    /\ ws' = [ws EXCEPT !.entries = @ \cup {[path |-> Append(parent, name),
                                             type |-> type]}]
    /\ ForgetScans
    /\ UNCHANGED <<folderOpen, cacheFile, clock, cacheApiVars, pipeVars>>

RemoveEntry(e) ==
    /\ e \in OwnEntries(ws)
    /\ ~HasChildren(ws, e.path)
    /\ ws' = [ws EXCEPT !.entries = @ \ {e}]
    /\ ForgetScans
    /\ UNCHANGED <<folderOpen, cacheFile, clock, cacheApiVars, pipeVars>>

\* A file named like the cache record is created in, or deleted from, a
\* directory below the root.
ToggleNestedCacheFile(parent) ==
    /\ parent \in Directories(ws) \ {<<>>}
    /\ LET f == File(Append(parent, CacheFileName))
       IN  ws' = [ws EXCEPT !.entries =
                     IF f \in @ THEN @ \ {f} ELSE @ \cup {f}]
    /\ cacheTouched' = TRUE
    /\ UNCHANGED <<folderOpen, cacheFile, clock, cacheApiVars, pipeVars,
                   tree, treeText, codebaseHash, scanned, prevScan,
                   scanApiVars>>

\* The cache record of the root is created or overwritten by saveCache.
WriteCacheFile(h) ==
    /\ cacheFile' = saveCache(cacheFile, folderOpen, clock, h, Raw(2), <<>>, {})
    /\ cacheFile' # cacheFile
    /\ cacheTouched' = TRUE
    /\ UNCHANGED <<ws, folderOpen, clock, cacheApiVars, pipeVars,
                   tree, treeText, codebaseHash, scanned, prevScan,
                   scanApiVars>>

\* The cache record of the root is deleted by clearCache.
DeleteCacheFile ==
    /\ existsSync(cacheFile)
    /\ cacheFile' = clearCache(cacheFile, folderOpen)
    /\ cacheTouched' = TRUE
    /\ UNCHANGED <<ws, folderOpen, clock, cacheApiVars, pipeVars,
                   tree, treeText, codebaseHash, scanned, prevScan,
                   scanApiVars>>

ScanWorkspace ==
    LET t == scanWorkspace(ws, existsSync(cacheFile))
        text == getDirectoryTreeAsText(ws, folderOpen, existsSync(cacheFile))
    IN  /\ prevScan' = IF scanned
                       THEN [valid |-> TRUE, tree |-> tree, text |-> treeText,
                             hash |-> codebaseHash, cacheOps |-> cacheTouched]
                       ELSE NoScan
        /\ tree' = t
        /\ treeText' = text
        /\ codebaseHash' = generateCodebaseHash(text)
        /\ scanned' = TRUE
        /\ cacheTouched' = FALSE
        /\ UNCHANGED <<ws, folderOpen, cacheFile, clock, cacheApiVars,
                       pipeVars, scanApiVars>>

InitTree ==
    /\ ws = EmptyWorkspace
    /\ folderOpen = TRUE
    /\ cacheFile = NoCacheFile
    /\ clock = 0
    /\ cachedResult = Null
    /\ tree = <<>>
    /\ treeText = <<>>
    /\ codebaseHash = NoHash
    /\ scanned = FALSE
    /\ prevScan = NoScan
    /\ filterCall = NoFilterCall
    /\ progress = NoProgress
    /\ toolCall = NoToolCall
    /\ runs = NoRuns
    /\ cacheTouched = FALSE
    /\ lastCall = NoCall
    /\ remembered = NotRemembered
    /\ openai = FALSE
    /\ InitRun
    /\ savedRun = NoSavedRun

NextTree ==
    \/ \E parent \in Directories(ws), name \in Names,
          type \in {"file", "directory"} : AddEntry(parent, name, type)
    \/ \E e \in ws.entries : RemoveEntry(e)
    \/ \E parent \in Directories(ws) : ToggleNestedCacheFile(parent)
    \/ \E h \in HashChoices : WriteCacheFile(h)
    \/ DeleteCacheFile
    \/ ScanWorkspace

SpecTree == InitTree /\ [][NextTree]_vars

(***************************************************************************)
(* The path filter and the scanner on examples: shouldIgnore and           *)
(* matchesPattern are called with a path and patterns, and workspaces with *)
(* deep nesting, system directories and ignore files are scanned.          *)
(***************************************************************************)
\* Directory levels of the deepest example workspace.
MaxNesting == 7

\* Patterns an ignore list holds at most when shouldIgnore is called.
MaxPatterns == 2

\* The patterns node_modules, *.log and dist/ of the ignore example.
PatNodeModules == Chars("node_modules")

PatLog == <<"*", ".", "l", "o", "g">>

PatDistSlash == Chars("dist") \o <<"/">>

\* A root-anchored pattern, a negation, a pattern with a double star and
\* one that is no regular expression.
PatRootBuild == <<"/">> \o Chars("build")

PatNotA == <<"!">> \o Chars("a")

PatAnyB == <<"*", "*", "/">> \o Chars("b")

PatParen == <<"(">>

\* Plain names, names with a trailing slash and *.ext globs.
SimplePatterns ==
    {PatNodeModules, PatLog, PatDistSlash, Chars("dist"), Chars("build")}

FilterPatterns ==
    SimplePatterns \cup {PatRootBuild, PatNotA, PatAnyB, PatParen}

ExamplePatterns == <<PatNodeModules, PatLog, PatDistSlash>>

PatternLists ==
    {ExamplePatterns}
    \cup UNION {[1..n -> FilterPatterns] : n \in 1..MaxPatterns}

\* The relative paths the filter is asked about.
FilterPaths ==
    {<<"node_modules", "x.js">>, <<"build.log">>, <<"dist", "a.txt">>,
     <<"src", "index.js">>, <<"src", "build">>, <<"build">>, <<"distro">>,
     <<"a", "b">>}

\* How a call of matchesPattern ends.
matchOutcome(relPath, pattern) ==
    IF patternThrows(pattern) THEN "throws"
    ELSE IF matchesPattern(joinPath(relPath),
                           [i \in 1..Len(relPath) |-> Chars(relPath[i])],
                           pattern)
    THEN "ignored" ELSE "kept"

\* How a call of shouldIgnore ends.
ignoreOutcome(relPath, patterns) ==
    IF shouldIgnoreThrows(relPath, patterns) THEN "throws"
    ELSE IF shouldIgnore(relPath, patterns) THEN "ignored" ELSE "kept"

\* n directories named a, each in the one before, and a file in the last.
Chain(n) ==
    Workspace({Dir([k \in 1..m |-> "a"]) : m \in 1..n}
              \cup {File([k \in 1..(n + 1) |-> IF k = n + 1 THEN "c" ELSE "a"])})

\* A directory d with a file and a filled directory in it, lying in parent,
\* beside a source directory; the lines of .gitignore are g.
WithSystemDir(d, parent, g) ==
    [Workspace({Dir(<<"src">>), File(<<"src", "index.js">>),
                Dir(parent \o <<d>>), File(parent \o <<d, "a">>),
                Dir(parent \o <<d, "b">>), File(parent \o <<d, "b", "c">>)})
     EXCEPT !.gitignore = g]

\* The workspace of the ignore example, with a file whose name begins like
\* a pattern.
WsIgnoreExample ==
    [Workspace({Dir(<<"node_modules">>), File(<<"node_modules", "x.js">>),
                File(<<"build.log">>), Dir(<<"dist">>),
                File(<<"dist", "a.txt">>), Dir(<<"src">>),
                File(<<"src", "index.js">>), File(<<"distro">>)})
     EXCEPT !.gitignore = Gitignore(ExamplePatterns)]

\* Workspaces whose ignore file holds a line that is no regular expression.
WsBadPattern(g) ==
    [Workspace({Dir(<<"a">>), File(<<"a", "c">>), File(<<"b">>), File(<<"c">>)})
     EXCEPT !.gitignore = g]

GitignoreChoices ==
    {NoGitignore, Gitignore(<<>>), Gitignore(ExamplePatterns),
     Gitignore(<<PatNotA, <<" ">>, <<"#">> \o PatLog>>)}

ScanWorkspaces ==
    {Chain(n) : n \in 0..MaxNesting}
    \cup {WithSystemDir(d, parent, g) :
             d \in skipDirs, parent \in {<<>>, <<"src">>},
             g \in GitignoreChoices}
    \cup {WsIgnoreExample}
    \cup {WsBadPattern(Gitignore(g)) :
             g \in {<<PatParen>>, <<Chars("b"), PatParen>>}}

\* What readDirectoryTree passes to a progress callback given as its sixth
\* argument: the function has five parameters and calls nothing.
progressReports(treeItems) == <<>>

\* The call that is to be made: a path and a list of patterns.
PendingCalls ==
    {FilterCall("pending", relPath, patterns, "kept") :
        relPath \in FilterPaths, patterns \in PatternLists}

\* matchesPattern is called with the path and the only pattern of the list.
CallMatchesPattern ==
    /\ filterCall.op = "pending"
    /\ Len(filterCall.patterns) = 1
    /\ filterCall' = FilterCall("matchesPattern", filterCall.relPath,
                                filterCall.patterns,
                                matchOutcome(filterCall.relPath,
                                             filterCall.patterns[1]))
    /\ UNCHANGED <<ws, folderOpen, cacheFile, clock, tree, treeText,
                   codebaseHash, scanned, prevScan, cacheTouched, progress,
                   toolCall, runs, cacheApiVars, pipeVars>>

\* shouldIgnore is called with the path and the list of patterns.
CallShouldIgnore ==
    /\ filterCall.op = "pending"
    /\ filterCall' = FilterCall("shouldIgnore", filterCall.relPath,
                                filterCall.patterns,
                                ignoreOutcome(filterCall.relPath,
                                              filterCall.patterns))
    /\ UNCHANGED <<ws, folderOpen, cacheFile, clock, tree, treeText,
                   codebaseHash, scanned, prevScan, cacheTouched, progress,
                   toolCall, runs, cacheApiVars, pipeVars>>

InitFilter ==
    /\ ws = EmptyWorkspace
    /\ folderOpen = TRUE
    /\ cacheFile = NoCacheFile
    /\ clock = 0
    /\ cachedResult = Null
    /\ tree = <<>>
    /\ treeText = <<>>
    /\ codebaseHash = NoHash
    /\ scanned = FALSE
    /\ prevScan = NoScan
    /\ cacheTouched = FALSE
    /\ filterCall \in PendingCalls
    /\ progress = NoProgress
    /\ toolCall = NoToolCall
    /\ runs = NoRuns
    /\ lastCall = NoCall
    /\ remembered = NotRemembered
    /\ openai = FALSE
    /\ InitRun
    /\ savedRun = NoSavedRun

NextFilter ==
    \/ CallMatchesPattern
    \/ CallShouldIgnore

SpecFilter == InitFilter /\ [][NextFilter]_vars

\* The workspace w is opened and scanned, with or without a progress
\* callback.
ScanExample(w, withCallback) ==
    LET t == scanWorkspace(w, existsSync(cacheFile))
    IN  /\ ws' = w
        /\ tree' = t
        /\ treeText' = formatTree(t, RootName)
        /\ codebaseHash' = generateCodebaseHash(treeText')
        /\ scanned' = TRUE
        /\ prevScan' = NoScan
        /\ cacheTouched' = FALSE
        /\ progress' = Progress(withCallback,
                                IF withCallback THEN progressReports(t)
                                ELSE <<>>)
        /\ UNCHANGED <<folderOpen, cacheFile, clock, filterCall, toolCall,
                       runs, cacheApiVars, pipeVars>>

InitScan == InitTree

NextScan ==
    \E w \in ScanWorkspaces, withCallback \in BOOLEAN :
        ScanExample(w, withCallback)

SpecScan == InitScan /\ [][NextScan]_vars

(***************************************************************************)
(* part_007: _executeTool.  Paths are sequences of characters, as the      *)
(* code compares them; the disk holds the workspace /w and what lies next  *)
(* to it.                                                                  *)
(***************************************************************************)
WorkspacePath == <<"/", "w">>

Node(p, kind, size) == [path |-> p, kind |-> kind, size |-> size]

\* The files and directories of the disk: text files of 10, 1500 and 20001
\* bytes, a file with a null byte, a file that cannot be read.
Disk ==
    {Node(<<"/">>, "directory", 0),
     Node(<<"/", "w">>, "directory", 0),
     Node(<<"/", "w", "/", "a">>, "file", 10),
     Node(<<"/", "w", "/", "d">>, "directory", 0),
     Node(<<"/", "w", "/", "d", "/", "f">>, "file", 1500),
     Node(<<"/", "w", "/", "g">>, "file", 20001),
     Node(<<"/", "w", "/", "n">>, "binary", 10),
     Node(<<"/", "w", "/", "u">>, "unreadable", 10),
     Node(<<"/", "x">>, "directory", 0),
     Node(<<"/", "x", "/", "a">>, "file", 10),
     Node(<<"/", "w", "x">>, "file", 10)}

RECURSIVE splitPath(_)
\* The segments of a path that are not empty.
splitPath(p) ==
    IF p = <<>> THEN <<>>
    ELSE LET seps == {i \in 1..Len(p) : p[i] = "/"} \cup {Len(p) + 1}
             first == CHOOSE i \in seps : \A j \in seps : i <= j
             seg == SubSeq(p, 1, first - 1)
         IN  (IF seg = <<>> THEN <<>> ELSE <<seg>>)
             \o splitPath(SubSeq(p, first + 1, Len(p)))

RECURSIVE resolveDots(_, _, _)
\* "." is dropped, ".." takes the segment before it away; above the root
\* ".." is dropped, at the head of a relative path it stays.
resolveDots(segs, stack, abs) ==
    IF segs = <<>> THEN stack
    ELSE LET s == Head(segs)
             up == <<".", ".">>
         IN  resolveDots(Tail(segs),
                IF s = <<".">> THEN stack
                ELSE IF s = up
                THEN IF stack # <<>> /\ Last(stack) # up THEN Front(stack)
                     ELSE IF abs THEN stack
                     ELSE Append(stack, s)
                ELSE Append(stack, s),
                abs)

RECURSIVE joinSegments(_)
joinSegments(segs) ==
    IF segs = <<>> THEN <<>>
    ELSE IF Len(segs) = 1 THEN segs[1]
    ELSE segs[1] \o <<"/">> \o joinSegments(Tail(segs))

isAbsolute(p) == p # <<>> /\ p[1] = "/"

\* path.normalize: the dots are resolved, repeated separators become one, a
\* trailing separator stays.
normalize(p) ==
    IF p = <<>> THEN <<".">>
    ELSE LET abs == isAbsolute(p)
             trailing == Last(p) = "/"
             core == (IF abs THEN <<"/">> ELSE <<>>)
                     \o joinSegments(resolveDots(splitPath(p), <<>>, abs))
         IN  IF core = <<>>
             THEN IF trailing THEN <<".", "/">> ELSE <<".">>
             ELSE IF trailing /\ Last(core) # "/" THEN core \o <<"/">>
             ELSE core

\* path.join of two paths that are not empty.
pathJoin(a, b) == normalize(a \o <<"/">> \o b)

\* What the path names on the disk; a path with a trailing separator names
\* a directory only.
diskNode(p) ==
    LET bare == IF Len(p) > 1 /\ Last(p) = "/" THEN Front(p) ELSE p
        found == {n \in Disk : n.path = bare}
    IN  IF found = {} \/ (bare # p /\ \A n \in found : n.kind # "directory")
        THEN Node(p, "missing", 0)
        ELSE CHOOSE n \in found : TRUE

\* A test that lets every path through.
insideWorkspace_Always(normalizedResolved) == TRUE

\* "normalizedResolved.startsWith(path.normalize(workspacePath + path.sep))"
insideWorkspace(normalizedResolved) ==
    StartsWith(normalizedResolved, normalize(WorkspacePath \o <<"/">>))

\* The limit of the bytes returned.
byteLimit(max_bytes) == IF max_bytes >= 1000 THEN max_bytes ELSE 20000

\* case 'read_file_content'
readFileContent(given, file_path, max_bytes, open) ==
    IF ~given \/ file_path = <<>>
    THEN ToolError("file_path is required and must be a string.")
    ELSE IF ~open THEN ToolError("No workspace folder is currently open.")
    ELSE LET resolvedPath == IF isAbsolute(file_path) THEN file_path
                             ELSE pathJoin(WorkspacePath, file_path)
             normalizedResolved == normalize(resolvedPath)
             n == diskNode(normalizedResolved)
         IN  IF ~insideWorkspace(normalizedResolved)
             THEN ToolError("Access denied: Path is outside of the workspace.")
             ELSE IF n.kind = "missing" THEN ToolError("File not found")
             ELSE IF n.kind = "directory" THEN ToolError("Path is not a file.")
             ELSE IF n.kind = "unreadable" THEN ToolError("Error reading file")
             ELSE IF n.kind = "binary"
             THEN ToolError("Binary file detected; cannot display as text.")
             ELSE ToolResult(TRUE, "", normalizedResolved,
                             n.size > byteLimit(max_bytes))

\* _executeTool
executeTool(functionName, given, file_path, max_bytes, open) ==
    CASE functionName = "get_directory_tree" ->
            \* the text of _getDirectoryTreeAsText: no file is read
            ToolResult(TRUE, "", <<>>, FALSE)
      [] functionName = "read_file_content" ->
            readFileContent(given, file_path, max_bytes, open)
      [] OTHER -> ToolError("Unknown function")

\* The paths the remote model asks for.
ToolFilePaths ==
    {<<"a">>, <<"d">>, <<"d", "/">>, <<"d", "/", "f">>, <<"g">>, <<"n">>,
     <<"u">>, <<"m">>, <<"a", "/">>, <<".">>, <<".", "/">>,
     <<"d", "/", ".", ".", "/", "a">>,
     <<".", ".", "/", "x", "/", "a">>,
     <<"d", "/", ".", ".", "/", ".", ".", "/", "x", "/", "a">>,
     <<".", ".", "/", "w", "x">>,
     <<".", ".", "/", "w", "/", "a">>,
     <<"/", "w", "/", "a">>, <<"/", "w", "/", "d", "/", "f">>,
     <<"/", "w">>, <<"/", "w", "x">>, <<"/", "x", "/", "a">>,
     <<"/", "w", "/", ".", ".", "/", "x", "/", "a">>,
     <<"/", "w", "/", "/", "a">>, <<"/", "w", "/", "m">>}

ToolFunctionNames == {"read_file_content", "get_directory_tree", "write_file"}

PendingToolCalls ==
    {ToolCallOf(f, g, p, b, ToolError("pending")) :
        f \in ToolFunctionNames, g \in BOOLEAN,
        p \in ToolFilePaths \cup {<<>>}, b \in {-1, 500, 1000}}

\* _executeTool is called with the arguments of the pending call.
CallExecuteTool ==
    /\ toolCall.result.error = "pending"
    /\ toolCall' =
          [toolCall EXCEPT !.result =
              executeTool(toolCall.functionName, toolCall.given,
                          toolCall.file_path, toolCall.max_bytes,
                          folderOpen)]
    /\ UNCHANGED <<ws, folderOpen, cacheFile, clock, tree, treeText,
                   codebaseHash, scanned, prevScan, cacheTouched, filterCall,
                   progress, runs, cacheApiVars, pipeVars>>

InitTool ==
    /\ ws = EmptyWorkspace
    /\ folderOpen \in BOOLEAN
    /\ cacheFile = NoCacheFile
    /\ clock = 0
    /\ cachedResult = Null
    /\ tree = <<>>
    /\ treeText = <<>>
    /\ codebaseHash = NoHash
    /\ scanned = FALSE
    /\ prevScan = NoScan
    /\ cacheTouched = FALSE
    /\ filterCall = NoFilterCall
    /\ progress = NoProgress
    /\ toolCall \in PendingToolCalls
    /\ runs = NoRuns
    /\ lastCall = NoCall
    /\ remembered = NotRemembered
    /\ openai = FALSE
    /\ InitRun
    /\ savedRun = NoSavedRun

NextTool == CallExecuteTool

SpecTool == InitTool /\ [][NextTool]_vars

(***************************************************************************)
(* fileUtils.js.  The package.json of a workspace is absent (NoFile), a    *)
(* JSON text that lists react among its dependencies ("react"), a text     *)
(* that is not JSON ("garbage"), or cannot be read ("unreadable": the path *)
(* exists and readFileSync throws).                                        *)
(***************************************************************************)
readPackageJson(w, open) ==
    IF ~open \/ w.pkg = NoFile THEN [threw |-> FALSE, content |-> ""]
    ELSE IF w.pkg = "unreadable" THEN [threw |-> TRUE, content |-> ""]
    ELSE [threw |-> FALSE, content |-> w.pkg]

\* A fallback that yields no description.
generateFallbackDescription_Empty(text, packageJsonContent) == EmptyString

\* The description is text that is never empty.
generateFallbackDescription(text, packageJsonContent) ==
    Text("fallback", 0, {})

extractFeaturesFromPackageJson(packageJsonContent) ==
    IF packageJsonContent = "react" THEN <<"React">> ELSE <<>>

toLowerCase(s) ==
    [p \in 1..Len(s) |->
        CASE s[p] = "R" -> "r"
          [] s[p] = "T" -> "t"
          [] s[p] = "S" -> "s"
          [] OTHER -> s[p]]

\* The keywords of extractFeaturesFromText, in its order, and their features.
Keywords ==
    << <<"r", "e", "a", "c", "t">>,
       <<"v", "u", "e">>,
       <<"e", "x", "p", "r", "e", "s", "s">>,
       <<"n", "e", "x", "t">>,
       <<"t", "y", "p", "e", "s", "c", "r", "i", "p", "t">> >>

KeywordFeatures == <<"React", "Vue.js", "Express.js", "Next.js", "TypeScript">>

RECURSIVE keywordFeatures(_, _)
keywordFeatures(lowerText, k) ==
    IF k > Len(Keywords) THEN <<>>
    ELSE (IF Includes(lowerText, Keywords[k])
          THEN <<KeywordFeatures[k]>> ELSE <<>>)
         \o keywordFeatures(lowerText, k + 1)

extractFeaturesFromText(text) == keywordFeatures(toLowerCase(text), 1)

(***************************************************************************)
(* analysisService.js: the pure parts of performStage1Analysis.  A reply   *)
(* of the remote model has a content and a reasoning field (a sample, or   *)
(* NoContent) and a sequence of tool calls.                                *)
(***************************************************************************)
Reply(content, reasoning, tool_calls) ==
    [content |-> content, reasoning |-> reasoning, tool_calls |-> tool_calls]

ToolCall(name, file_path) == [name |-> name, file_path |-> file_path]

\* "x || ''" for a content or reasoning field.
orEmpty(c) == IF c = NoContent THEN 0 ELSE c

\* "!s || s.trim().length === 0" for a sample.
blankSample(i) == Trim(SampleChars(i)) = <<>>

\* stage1Content after the initial response: the reasoning stands in for a
\* blank content only when it is not blank itself.
initialContent(reply) ==
    LET c == orEmpty(reply.content)
    IN  IF blankSample(c) /\ reply.reasoning # NoContent
                          /\ ~blankSample(reply.reasoning)
        THEN reply.reasoning
        ELSE c

\* responseContent of a response in the tool loop.
loopContent(reply) ==
    LET c == orEmpty(reply.content)
    IN  IF blankSample(c) THEN orEmpty(reply.reasoning) ELSE c

hasJson(i) ==
    "{" \in Range(SampleChars(i)) /\ "}" \in Range(SampleChars(i))

isBriefMessage(i) == Len(SampleChars(i)) < BriefLimit /\ ~hasJson(i)

\* The ceiling of the tool loop.
maxToolCallIterations == 3

\* A loop that never reaches its ceiling.
loopGuard_Always(n) == TRUE

\* "while (iteration < maxToolCallIterations)"
loopGuard(n) == n < maxToolCallIterations

\* A message of the conversation: its role, the ids of the tool calls an
\* assistant message carries, the id a tool result answers; the text is
\* left out.  "carried" tells that a request has taken the message to the
\* remote model.
Message(role, tool_calls, tool_call_id) ==
    [role |-> role, tool_calls |-> tool_calls, tool_call_id |-> tool_call_id,
     carried |-> FALSE]

NoId == <<>>

SystemMessage == Message("system", <<>>, NoId)

UserMessage == Message("user", <<>>, NoId)

AssistantMessage(ids) == Message("assistant", ids, NoId)

\* The ids of the tool calls of a response: the remote model names call k of
\* its response number r <<r, k>>.
toolCallIds(calls, r) == [k \in 1..Len(calls) |-> <<r, k>>]

\* Results are pushed for the tool calls that succeeded only.
toolResults_OfSuccesses(calls, outcomes, r) ==
    LET ks == SelectSeq([k \in 1..Len(calls) |-> k],
                        LAMBDA k : outcomes[k] = "ok")
    IN  [j \in 1..Len(ks) |-> Message("tool", <<>>, <<r, ks[j]>>)]

\* toolResults.push: one result for every tool call, in their order, with
\* the id of the call, whether the tool succeeded or reported an error.
toolResults(calls, outcomes, r) ==
    [k \in 1..Len(calls) |-> Message("tool", <<>>, toolCallIds(calls, r)[k])]

\* The messages a request has carried.
sent(messages) ==
    [k \in 1..Len(messages) |-> [messages[k] EXCEPT !.carried = TRUE]]

\* The tool calls of one response are executed in order; executeTool
\* succeeds ("ok"), reports an error ("error") or throws ("throws").
RECURSIVE executeTools(_, _, _, _)
executeTools(calls, outcomes, k, fc) ==
    IF k > Len(calls) THEN [threw |-> FALSE, fc |-> fc, n |-> Len(calls)]
    ELSE IF outcomes[k] = "throws" THEN [threw |-> TRUE, fc |-> fc, n |-> k]
    ELSE executeTools(calls, outcomes, k + 1,
            IF calls[k].name = "read_file_content" /\ outcomes[k] = "ok"
            THEN fc \cup {IF calls[k].file_path = NoFile THEN "unknown"
                          ELSE calls[k].file_path}
            ELSE fc)

\* The first match of a fence, the tag, white space, as little text as
\* possible, white space, a fence: the text between.
fencedGroup(text, tag) ==
    LET opens(p) == /\ text[p] = Fence
                    /\ p + Len(tag) <= Len(text)
                    /\ SubSeq(text, p + 1, p + Len(tag)) = tag
        closes(p) == {q \in (p + Len(tag) + 1)..Len(text) : text[q] = Fence}
        starts == {p \in 1..Len(text) : opens(p) /\ closes(p) # {}}
    IN  IF starts = {} THEN [found |-> FALSE, text |-> <<>>]
        ELSE LET p == CHOOSE x \in starts : \A y \in starts : x <= y
                 q == CHOOSE x \in closes(p) : \A y \in closes(p) : x <= y
             IN  [found |-> TRUE,
                  text |-> Trim(SubSeq(text, p + Len(tag) + 1, q - 1))]

\* jsonMatch ? jsonMatch[1] : stage1Content
jsonTextOf(text) ==
    LET tagged == fencedGroup(text, <<"j", "s", "o", "n">>)
        plain == fencedGroup(text, <<>>)
    IN  IF tagged.found THEN tagged.text
        ELSE IF plain.found THEN plain.text
        ELSE text

\* JSON.parse(jsonText.trim()) succeeds on the JSON samples only; the value
\* is the sample's.
jsonSample(jsonText) ==
    LET S == {j \in Samples : jsonParses(j)
                              /\ Trim(jsonText) = Trim(SampleChars(j))}
    IN  IF S = {} THEN NoContent ELSE CHOOSE j \in S : TRUE

\* A label, then colons or white space, then a character of the same line.
labelMatch(text, labels) ==
    LET lower == toLowerCase(text)
        seps == WhiteSpace \cup {":"}
    IN  \E l \in labels, p \in 1..Len(text) :
            /\ p + Len(l) < Len(text)
            /\ SubSeq(lower, p, p + Len(l) - 1) = l
            /\ \E k \in 1..(Len(text) - p - Len(l)) :
                  /\ \A m \in 1..k : text[p + Len(l) - 1 + m] \in seps
                  /\ text[p + Len(l) + k] # NL

DescriptionLabels ==
    {<<"d", "e", "s", "c", "r", "i", "p", "t", "i", "o", "n">>,
     <<"p", "r", "o", "j", "e", "c", "t">>,
     <<"a", "p", "p", "l", "i", "c", "a", "t", "i", "o", "n">>}

FeatureLabels ==
    {<<"f", "e", "a", "t", "u", "r", "e">>,
     <<"f", "e", "a", "t", "u", "r", "e", "s">>,
     <<"t", "e", "c", "h", "n", "o", "l", "o", "g", "i", "e">>,
     <<"t", "e", "c", "h", "n", "o", "l", "o", "g", "i", "e", "s">>}

Stage1Result(a, f, fc) ==
    [detailedAnalysis |-> a, features |-> f, fileContents |-> fc]

\* The parse of stage1Content at the end of performStage1Analysis.
parseStage1(content, fc) ==
    LET text == SampleChars(content)
        j == jsonSample(jsonTextOf(text))
        found == extractFeaturesFromText(text)
    IN  IF blankSample(content) THEN Stage1Result(EmptyString, <<>>, {})
        ELSE IF j # NoContent
        THEN Stage1Result(Text("pretty", j, {}), parsedFeatures(j), fc)
        ELSE IF \/ labelMatch(text, DescriptionLabels)
                \/ labelMatch(text, FeatureLabels)
                \/ found # <<>>
        THEN Stage1Result(Text("structured", content, {}), found, fc)
        ELSE Stage1Result(Raw(content), found, fc)

(***************************************************************************)
(* analysisService.js: the pure parts of performAnalysis and of            *)
(* performStage2Polishing.                                                 *)
(***************************************************************************)
\* The text is JSON: it was made by JSON.stringify, or is a JSON sample.
isJsonText(t) == t.k \in {"pretty", "structured", "fallbackJson"}
                 \/ (t.k = "raw" /\ jsonParses(t.i))

\* A cache hit that leaves the file contents of the record out.
mergeFileContents_None(t, fc) == t

\* On a cache hit the file contents of the record are put into the analysis:
\* as a field of the object when it is JSON, as text after it when not.
mergeFileContents(t, fc) ==
    IF fc = {} THEN t
    ELSE IF isJsonText(t)
    THEN Text(IF t.k = "raw" THEN "pretty" ELSE t.k, t.i, fc)
    ELSE Text(t.k, t.i, t.fc \cup fc)

\* A save that is made whatever Stage 1 returned.
shouldSave_Always(a) == TRUE

\* "detailedAnalysis && detailedAnalysis.trim().length > 0"
shouldSave(a) == ~falsy(a) /\ ~isBlank(a)

\* The analysis handed to Stage 2 is never empty.
validatedAnalysis(a) ==
    IF falsy(a) \/ isBlank(a) THEN Text("fallbackJson", 0, {}) ELSE a

\* Features that are empty are replaced by those of package.json.
filledFeatures(f, packageJsonContent) ==
    IF f = <<>> THEN extractFeaturesFromPackageJson(packageJsonContent)
    ELSE f

\* The markdown made without the remote model.
localMarkdown == Text("localMarkdown", 0, {})

\* A Stage 2 that returns the reply as it came.
polishedMarkdown_AsIs(content) == Text("polished", content, {})

\* The markdown performStage2Polishing makes of the reply's content.
polishedMarkdown(content) ==
    LET md == Trim(SampleChars(content))
        tag == <<"m", "e", "r", "m", "a", "i", "d">>
        m == fencedGroup(md, tag)
    IN  IF (m.found /\ m.text # <<>>) \/ Includes(md, <<Fence>> \o tag)
        THEN Text("polished", content, {})
        ELSE Text("polishedWithLocalDiagram", content, {})

(***************************************************************************)
(* analysisService.js: performAnalysis as a process.  It stops where it    *)
(* awaits the remote model; the workspace and the record file change from  *)
(* outside between runs.                                                   *)
(***************************************************************************)
\* Workspaces the pipeline is run on.
WsNested == Workspace({Dir(<<"a">>), Dir(<<"a", "b">>), File(<<"c">>)})

WsFlat == Workspace({Dir(<<"a">>), Dir(<<"b">>), File(<<"b", "c">>)})

WsReact == [Workspace({File(<<"a">>)}) EXCEPT !.pkg = "react"]

WsUnreadableManifest == [Workspace({File(<<"a">>)}) EXCEPT !.pkg = "unreadable"]

\* The root itself cannot be read.
WsUnreadableRoot == [Workspace({File(<<"a">>)}) EXCEPT !.unreadable = {<<>>}]

Workspaces ==
    {EmptyWorkspace, WsNested, WsFlat, WsReact, WsUnreadableManifest,
     WsUnreadableRoot}

\* The replies of the remote model.
ToolCallChoices == {ToolCall("read_file_content", "f")}

ToolCallSeqs == UNION {[1..n -> ToolCallChoices] : n \in 0..MaxToolCalls}

ToolOutcomes == {"ok", "error", "throws"}

ContentChoices ==
    {<<NoContent, NoContent>>, <<0, 5>>, <<2, NoContent>>, <<3, NoContent>>,
     <<4, NoContent>>, <<7, NoContent>>}

Stage1Replies ==
    {Reply(c[1], c[2], t) : c \in ContentChoices, t \in ToolCallSeqs}

Stage2Contents == {NoContent, 2, 6}

\* The paths fileContentsMap can hold.
ToolPaths == {c.file_path : c \in ToolCallChoices} \cup {"unknown"}

\* parseStage1 and polishedMarkdown, computed once for every argument.
stage1Table ==
    {<<content, fc, parseStage1(content, fc)>> :
        content \in Samples, fc \in SUBSET ToolPaths}

stage1Results(content, fc) ==
    (CHOOSE t \in stage1Table : t[1] = content /\ t[2] = fc)[3]

stage2Table == {<<content, polishedMarkdown(content)>> : content \in Samples}

stage2Markdowns(content) == (CHOOSE t \in stage2Table : t[1] = content)[2]

Result(markdown, f) ==
    [markdown |-> markdown, features |-> f, fromCache |-> FALSE]

\* Lines 416-424: the tree is read, formatted and hashed.
StartAnalysis ==
    /\ pc = "idle"
    /\ tree' = IF folderOpen THEN scanWorkspace(ws, existsSync(cacheFile))
               ELSE <<>>
    /\ treeText' = getDirectoryTreeAsText(ws, folderOpen, existsSync(cacheFile))
    /\ codebaseHash' = generateCodebaseHash(treeText')
    /\ fileAtStart' = cacheFile
    /\ pc' = "check"
    /\ UNCHANGED <<ws, folderOpen, cacheFile, clock, cachedResult, scanned,
                   prevScan, cacheTouched, scanApiVars, lastCall, remembered,
                   openai, detailedAnalysis, features, stage1Content,
                   fileContentsMap, iteration, currentMessages, result,
                   s1Requests, s2Requests, toolExecs, saves, lastContent,
                   loopExit, s1Outcome, stage2Input, remoteErrors, savedRun>>

\* Lines 430-465: the cache is loaded; a record that is found is used.
CheckCache ==
    /\ pc = "check"
    /\ cachedResult' = loadCache(cacheFile, folderOpen, codebaseHash)
    /\ IF cachedResult'.found
       THEN /\ detailedAnalysis' =
                  mergeFileContents(cachedResult'.detailedAnalysis,
                                    cachedResult'.fileContents)
            /\ features' = cachedResult'.features
            /\ pc' = "stage2"
       ELSE /\ pc' = "miss"
            /\ UNCHANGED <<detailedAnalysis, features>>
    /\ UNCHANGED <<ws, folderOpen, cacheFile, clock, treeVars, lastCall,
                   remembered, openai, stage1Content, fileContentsMap,
                   iteration, currentMessages, result, s1Requests, s2Requests,
                   toolExecs, saves, fileAtStart, lastContent, loopExit,
                   s1Outcome, stage2Input, remoteErrors, savedRun>>

\* Lines 468-480 and 505-512: package.json is read; the initial request of
\* Stage 1 is sent, or the fallback is made when there is no client.
BeginStage1 ==
    /\ pc = "miss"
    /\ LET pkg == readPackageJson(ws, folderOpen)
       IN  IF pkg.threw
           THEN /\ pc' = "failed"
                /\ UNCHANGED <<detailedAnalysis, features, s1Requests,
                               currentMessages>>
           ELSE IF ~openai
           THEN /\ detailedAnalysis' =
                      generateFallbackDescription(treeText, pkg.content)
                /\ features' = extractFeaturesFromPackageJson(pkg.content)
                /\ pc' = "stage2"
                /\ UNCHANGED <<s1Requests, currentMessages>>
           ELSE /\ pc' = "s1_initial"
                /\ s1Requests' = s1Requests + 1
                /\ currentMessages' = sent(<<SystemMessage, UserMessage>>)
                /\ UNCHANGED <<detailedAnalysis, features>>
    /\ UNCHANGED <<ws, folderOpen, cacheFile, clock, cachedResult, treeVars,
                   lastCall, remembered, openai, stage1Content,
                   fileContentsMap, iteration, result, s2Requests, toolExecs,
                   saves, fileAtStart, lastContent, loopExit, s1Outcome,
                   stage2Input, remoteErrors, savedRun>>

\* What no step of Stage 1 changes.
stage1Frame ==
    <<ws, folderOpen, clock, cachedResult, treeVars, lastCall, remembered,
      openai, result, s2Requests, fileAtStart, stage2Input>>

\* Lines 498-507: Stage 1 threw; the fallback is made, nothing is saved.
Stage1Fails(nTools) ==
    /\ detailedAnalysis' =
          generateFallbackDescription(treeText,
                                      readPackageJson(ws, folderOpen).content)
    /\ features' = extractFeaturesFromPackageJson(
                      readPackageJson(ws, folderOpen).content)
    /\ pc' = "stage2"
    /\ loopExit' = "threw"
    /\ s1Outcome' = "threw"
    /\ toolExecs' = toolExecs + nTools
    /\ UNCHANGED <<cacheFile, saves, savedRun, stage1Content, fileContentsMap,
                   iteration, currentMessages, s1Requests, lastContent>>

\* Lines 259-327 and 488-497: Stage 1 parses its content and returns; an
\* analysis that is not empty is saved.
Stage1Returns(content, fc, exit, nTools, last, n, pushed) ==
    LET r == stage1Results(content, fc)
    IN  /\ detailedAnalysis' = r.detailedAnalysis
        /\ features' = r.features
        /\ IF shouldSave(r.detailedAnalysis)
           THEN /\ cacheFile' = saveCache(cacheFile, folderOpen, clock,
                                          codebaseHash, r.detailedAnalysis,
                                          r.features, r.fileContents)
                /\ saves' = saves + 1
                /\ savedRun' = IF folderOpen
                               THEN [valid |-> TRUE, ws |-> ws, tree |-> tree,
                                     stage2Input |-> NoStage2Input]
                               ELSE savedRun
           ELSE UNCHANGED <<cacheFile, saves, savedRun>>
        /\ pc' = "stage2"
        /\ loopExit' = exit
        /\ s1Outcome' = IF falsy(r.detailedAnalysis) THEN "empty"
                        ELSE "analysis"
        /\ lastContent' = last
        /\ stage1Content' = content
        /\ fileContentsMap' = fc
        /\ iteration' = n
        /\ currentMessages' = currentMessages \o pushed
        /\ toolExecs' = toolExecs + nTools
        /\ UNCHANGED s1Requests

\* Line 152: the loop goes round and sends a follow-up request with the
\* messages gathered so far.
Stage1Continues(content, fc, nTools, last, n, pushed) ==
    /\ pc' = "s1_loop"
    /\ s1Requests' = s1Requests + 1
    /\ stage1Content' = content
    /\ fileContentsMap' = fc
    /\ iteration' = n
    /\ currentMessages' = sent(currentMessages \o pushed)
    /\ toolExecs' = toolExecs + nTools
    /\ lastContent' = last
    /\ UNCHANGED <<detailedAnalysis, features, cacheFile, saves, savedRun,
                   loopExit, s1Outcome>>

\* Lines 78-151: the initial response arrives; its tool calls are executed.
Stage1Initial(reply, outcomes) ==
    /\ pc = "s1_initial"
    /\ LET content == initialContent(reply)
           x == executeTools(reply.tool_calls, outcomes, 1, {})
           \* lines 133-149: the assistant message and the tool results
           pushed == <<AssistantMessage(toolCallIds(reply.tool_calls,
                                                    s1Requests))>>
                     \o toolResults(reply.tool_calls, outcomes, s1Requests)
       IN  IF Len(reply.tool_calls) = 0
           THEN Stage1Returns(content, {}, "no tool calls", 0, content, 0,
                              <<>>)
           ELSE IF x.threw THEN Stage1Fails(x.n)
           ELSE IF loopGuard(0)
           THEN Stage1Continues(content, x.fc, x.n, content, 0, pushed)
           ELSE Stage1Returns(content, x.fc, "ceiling", x.n, content, 0,
                              pushed)
    /\ UNCHANGED <<stage1Frame, remoteErrors>>

\* Lines 161-250: a response arrives in the tool loop.
Stage1Loop(reply, outcomes) ==
    /\ pc = "s1_loop"
    /\ LET responseContent == loopContent(reply)
           x == executeTools(reply.tool_calls, outcomes, 1, fileContentsMap)
           n == iteration + 1
           \* lines 211-224: the assistant message, the tool results and,
           \* below the ceiling, the request for the final analysis
           afterTools == <<AssistantMessage(toolCallIds(reply.tool_calls,
                                                        s1Requests))>>
                         \o toolResults(reply.tool_calls, outcomes,
                                        s1Requests)
                         \o (IF loopGuard(n) THEN <<UserMessage>> ELSE <<>>)
           \* lines 229-236: the brief reply and the request for more
           afterBrief == <<AssistantMessage(<<>>), UserMessage>>
       IN  IF Len(reply.tool_calls) > 0
           THEN IF x.threw THEN Stage1Fails(x.n)
                ELSE IF loopGuard(n)
                THEN Stage1Continues(stage1Content, x.fc, x.n,
                                     responseContent, n, afterTools)
                ELSE Stage1Returns(stage1Content, x.fc, "ceiling after tools",
                                   x.n, responseContent, n, afterTools)
           ELSE IF ~blankSample(responseContent)
           THEN IF isBriefMessage(responseContent)
                THEN IF loopGuard(n)
                     THEN Stage1Continues(stage1Content, fileContentsMap, 0,
                                          responseContent, n, afterBrief)
                     ELSE Stage1Returns(stage1Content, fileContentsMap,
                                        "ceiling after brief", 0,
                                        responseContent, n, afterBrief)
                ELSE Stage1Returns(responseContent, fileContentsMap, "final",
                                   0, responseContent, iteration, <<>>)
           ELSE Stage1Returns(stage1Content, fileContentsMap, "empty", 0,
                              responseContent, iteration, <<>>)
    /\ UNCHANGED <<stage1Frame, remoteErrors>>

\* Lines 50, 74 and 152: a completion request of Stage 1 throws.
Stage1Throws ==
    /\ pc \in {"s1_initial", "s1_loop"}
    /\ Stage1Fails(0)
    /\ remoteErrors' = remoteErrors \cup {"stage 1"}
    /\ UNCHANGED stage1Frame

\* Lines 517-557: package.json is read again, the analysis and the features
\* are completed, and Stage 2 is asked or the local markdown is made.  The
\* locals of performStage1Analysis are gone.
BeginStage2 ==
    /\ pc = "stage2"
    /\ LET pkg == readPackageJson(ws, folderOpen)
           a == validatedAnalysis(detailedAnalysis)
           f == filledFeatures(features, pkg.content)
       IN  IF pkg.threw
           THEN /\ pc' = "failed"
                /\ UNCHANGED <<detailedAnalysis, features, result, s2Requests,
                               stage2Input>>
           ELSE /\ detailedAnalysis' = a
                /\ features' = f
                /\ IF openai
                   THEN /\ pc' = "s2_wait"
                        /\ s2Requests' = s2Requests + 1
                        /\ stage2Input' =
                              [detailedAnalysis |-> a, features |-> f]
                        /\ UNCHANGED result
                   ELSE /\ pc' = "done"
                        /\ result' = Result(localMarkdown, f)
                        /\ UNCHANGED <<s2Requests, stage2Input>>
    /\ savedRun' = IF saves > 0 /\ folderOpen /\ stage2Input' # stage2Input
                   THEN [savedRun EXCEPT !.stage2Input = stage2Input']
                   ELSE savedRun
    /\ stage1Content' = 0
    /\ fileContentsMap' = {}
    /\ iteration' = 0
    /\ currentMessages' = <<>>
    /\ lastContent' = NoContent
    /\ loopExit' = "none"
    /\ UNCHANGED <<ws, folderOpen, cacheFile, clock, cachedResult, treeVars,
                   lastCall, remembered, openai, s1Requests, toolExecs, saves,
                   fileAtStart, s1Outcome, remoteErrors>>

\* What the end of Stage 2 leaves alone.
stage2Frame ==
    <<ws, folderOpen, cacheFile, clock, cachedResult, treeVars, lastCall,
      remembered, openai, detailedAnalysis, features, stage1Content,
      fileContentsMap, iteration, currentMessages, s1Requests, s2Requests,
      toolExecs, saves, fileAtStart, lastContent, loopExit, s1Outcome,
      stage2Input, savedRun>>

\* Lines 370-408 and 543-551: the reply of Stage 2 arrives; a reply without
\* content makes performStage2Polishing throw.
Stage2Reply(content) ==
    /\ pc = "s2_wait"
    /\ result' = Result(IF content = NoContent THEN localMarkdown
                        ELSE stage2Markdowns(content), features)
    /\ pc' = "done"
    /\ UNCHANGED <<stage2Frame, remoteErrors>>

\* Lines 354 and 545-551: the request of Stage 2 throws.
Stage2Throws ==
    /\ pc = "s2_wait"
    /\ result' = Result(localMarkdown, features)
    /\ pc' = "done"
    /\ remoteErrors' = remoteErrors \cup {"stage 2"}
    /\ UNCHANGED stage2Frame

\* Lines 569-577: performAnalysis returns or throws; its locals are gone.
Return ==
    /\ pc \in {"done", "failed"}
    /\ pc' = "idle"
    /\ detailedAnalysis' = EmptyString
    /\ features' = <<>>
    /\ stage1Content' = 0
    /\ fileContentsMap' = {}
    /\ iteration' = 0
    /\ currentMessages' = <<>>
    /\ result' = NoResult
    /\ s1Requests' = 0
    /\ s2Requests' = 0
    /\ toolExecs' = 0
    /\ saves' = 0
    /\ fileAtStart' = NoCacheFile
    /\ lastContent' = NoContent
    /\ loopExit' = "none"
    /\ s1Outcome' = "none"
    /\ stage2Input' = NoStage2Input
    /\ remoteErrors' = {}
    /\ cachedResult' = Null
    /\ tree' = <<>>
    /\ treeText' = <<>>
    /\ codebaseHash' = NoHash
    /\ UNCHANGED <<ws, folderOpen, cacheFile, clock, scanned, prevScan,
                   cacheTouched, scanApiVars, lastCall, remembered, openai,
                   savedRun>>

\* Between runs the workspace is replaced by another.
ChangeWorkspace(w) ==
    /\ pc = "idle"
    /\ w # ws
    /\ ws' = w
    /\ UNCHANGED <<folderOpen, cacheFile, clock, cachedResult, tree, treeText,
                   codebaseHash, scanned, prevScan, cacheTouched, scanApiVars,
                   lastCall, remembered, pipeVars>>

\* Between runs the record file is overwritten or removed from outside.
OutsideEdit(file) ==
    /\ pc = "idle"
    /\ folderOpen
    /\ file # cacheFile
    /\ cacheFile' = file
    /\ savedRun' = NoSavedRun
    /\ UNCHANGED <<ws, folderOpen, clock, cachedResult, treeVars, lastCall,
                   remembered, openai, runVars>>

Init ==
    /\ ws = EmptyWorkspace
    /\ folderOpen \in BOOLEAN
    /\ cacheFile = NoCacheFile
    /\ clock = 0
    /\ cachedResult = Null
    /\ tree = <<>>
    /\ treeText = <<>>
    /\ codebaseHash = NoHash
    /\ scanned = FALSE
    /\ prevScan = NoScan
    /\ filterCall = NoFilterCall
    /\ progress = NoProgress
    /\ toolCall = NoToolCall
    /\ runs = NoRuns
    /\ cacheTouched = FALSE
    /\ lastCall = NoCall
    /\ remembered = NotRemembered
    /\ openai \in BOOLEAN
    /\ InitRun
    /\ savedRun = NoSavedRun

Stage1Step ==
    \/ \E reply \in Stage1Replies :
          \E outcomes \in [1..Len(reply.tool_calls) -> ToolOutcomes] :
             Stage1Initial(reply, outcomes)
    \/ \E reply \in Stage1Replies :
          \E outcomes \in [1..Len(reply.tool_calls) -> ToolOutcomes] :
             Stage1Loop(reply, outcomes)
    \/ Stage1Throws

Next ==
    \/ StartAnalysis
    \/ CheckCache
    \/ BeginStage1
    \/ Stage1Step
    \/ BeginStage2
    \/ \E content \in Stage2Contents : Stage2Reply(content)
    \/ Stage2Throws
    \/ Return
    \/ \E w \in Workspaces : ChangeWorkspace(w)
    \/ \E file \in {NoCacheFile, GarbageFile} : OutsideEdit(file)

Spec == Init /\ [][Next]_vars

\* Every call of the remote model and every tool execution returns.
FairSpec == Spec /\ WF_vars(Stage1Step)

(***************************************************************************)
(* Claims about the cache store (checked under SpecCache).                 *)
(***************************************************************************)
\* C1: after any sequence of saveCache, clearCache, loadCache calls and
\* outside edits, loadCache(h) returns a record only if the file holds a
\* record whose codebaseHash equals h, and then it returns that record's
\* fields; with no file, a missing analysis field or a different hash it
\* returns null.
C1_LoadOnlyOnEqualHash ==
    lastCall.op = "load" =>
        LET h == lastCall.args.codebaseHash
        IN  /\ cachedResult.found =>
                  /\ cacheFile.kind = "object"
                  /\ cacheFile.codebaseHash = h
                  /\ cachedResult.detailedAnalysis = cacheFile.detailedAnalysis
            /\ (\/ ~existsSync(cacheFile)
                \/ falsy(cacheFile.detailedAnalysis)
                \/ cacheFile.codebaseHash # h) => cachedResult = Null

\* A loadCache call that returned the record a saveCache call had written.
C1_Witness ==
    /\ lastCall.op = "load"
    /\ cachedResult.found
    /\ remembered.valid
    /\ cacheFile = remembered.file

\* C3 as stated: a second saveCache call with the arguments of an earlier one
\* leaves the record file exactly as that earlier call left it.
C3_SaveTwiceByteIdentical ==
    (lastCall.op = "save" /\ remembered.valid /\ remembered.args = lastCall.args)
        => cacheFile = remembered.file

\* C3 amended: a second saveCache call with the arguments of an earlier one
\* leaves a record file that equals the earlier one in codebaseHash,
\* detailedAnalysis, features and fileContents; its timestamp is the time of
\* the later call, which is not before the time of the earlier one.
C3_SaveTwiceSameButTimestamp ==
    (lastCall.op = "save" /\ remembered.valid /\ remembered.args = lastCall.args)
        => /\ [cacheFile EXCEPT !.timestamp = 0]
                = [remembered.file EXCEPT !.timestamp = 0]
           /\ cacheFile.timestamp >= remembered.file.timestamp
           /\ cacheFile.timestamp <= clock

\* The second of two saveCache calls with the same arguments, made at a
\* later time than the first and after the file held something else.
C3_Witness ==
    /\ lastCall.op = "save"
    /\ remembered.valid
    /\ remembered.args = lastCall.args
    /\ cacheFile.timestamp > remembered.file.timestamp

(***************************************************************************)
(* Claims about the scanner (checked under SpecTree).                      *)
(***************************************************************************)
\* C4: two scans of a workspace that did not change between them give the
\* same entries, the same formatted tree and the same hash, whatever was done
\* between them to the cache record file of the root or to a file of that
\* name in a directory below it.
C4_RescanUnchanged ==
    prevScan.valid =>
        /\ prevScan.tree = tree
        /\ prevScan.text = treeText
        /\ prevScan.hash = codebaseHash

\* Two scans of a workspace with entries, a cache file having been created
\* or deleted between them, one of that name lying below the root.
C4_Witness ==
    /\ prevScan.valid
    /\ prevScan.cacheOps
    /\ tree # <<>>
    /\ existsSync(cacheFile)
    /\ \E e \in ws.entries : Last(e.path) = CacheFileName

(***************************************************************************)
(* analysisService.js: performStage1Analysis alone, from its initial       *)
(* request on, the remote model asking for up to MaxToolCalls + 1 tools of *)
(* two kinds in one response.                                              *)
(***************************************************************************)
WideToolCalls ==
    ToolCallChoices \cup {ToolCall("get_directory_tree", NoFile)}

WideReplies ==
    {Reply(c[1], c[2], t) :
        c \in ContentChoices,
        t \in UNION {[1..n -> WideToolCalls] : n \in 0..(MaxToolCalls + 1)}}

\* Stage 1 has sent its initial request for the empty workspace.
InitStage1 ==
    /\ ws = EmptyWorkspace
    /\ folderOpen = TRUE
    /\ cacheFile = NoCacheFile
    /\ clock = 0
    /\ cachedResult = Null
    /\ tree = <<>>
    /\ treeText = EmptyTreeText
    /\ codebaseHash = generateCodebaseHash(EmptyTreeText)
    /\ scanned = FALSE
    /\ prevScan = NoScan
    /\ cacheTouched = FALSE
    /\ filterCall = NoFilterCall
    /\ progress = NoProgress
    /\ toolCall = NoToolCall
    /\ runs = NoRuns
    /\ lastCall = NoCall
    /\ remembered = NotRemembered
    /\ openai = TRUE
    /\ pc = "s1_initial"
    /\ detailedAnalysis = EmptyString
    /\ features = <<>>
    /\ stage1Content = 0
    /\ fileContentsMap = {}
    /\ iteration = 0
    /\ currentMessages = sent(<<SystemMessage, UserMessage>>)
    /\ result = NoResult
    /\ s1Requests = 1
    /\ s2Requests = 0
    /\ toolExecs = 0
    /\ saves = 0
    /\ fileAtStart = NoCacheFile
    /\ lastContent = NoContent
    /\ loopExit = "none"
    /\ s1Outcome = "none"
    /\ stage2Input = NoStage2Input
    /\ remoteErrors = {}
    /\ savedRun = NoSavedRun

NextStage1 ==
    \/ \E reply \in WideReplies :
          \E outcomes \in [1..Len(reply.tool_calls) -> ToolOutcomes] :
             Stage1Initial(reply, outcomes)
    \/ \E reply \in WideReplies :
          \E outcomes \in [1..Len(reply.tool_calls) -> ToolOutcomes] :
             Stage1Loop(reply, outcomes)
    \/ Stage1Throws

SpecStage1 == InitStage1 /\ [][NextStage1]_vars

\* Every call of the remote model and every tool execution returns.
FairStage1 == SpecStage1 /\ WF_vars(NextStage1)

(***************************************************************************)
(* analysisService.js: two invocations of performAnalysis in one extension *)
(* host.  Each runs without interruption from one await to the next; the   *)
(* calls of the cache store are synchronous.  Stage 2 touches neither the  *)
(* workspace nor the record file and is left out.                          *)
(***************************************************************************)
\* Lines 421-424: the tree is read and hashed.
RaceStart(i) ==
    /\ runs[i].pc = "idle"
    /\ runs' = [runs EXCEPT
                  ![i].pc = "check",
                  ![i].hash = generateCodebaseHash(
                                 getDirectoryTreeAsText(ws, folderOpen,
                                                        existsSync(cacheFile)))]
    /\ UNCHANGED <<ws, folderOpen, cacheFile, clock, tree, treeText,
                   codebaseHash, scanned, prevScan, cacheTouched, filterCall,
                   progress, toolCall, cacheApiVars, pipeVars>>

\* Lines 433-466: the cache is loaded; a record that is found ends the part
\* of the run that deals with the cache.
RaceCheck(i) ==
    /\ runs[i].pc = "check"
    /\ LET loaded == loadCache(cacheFile, folderOpen, runs[i].hash)
       IN  runs' = [runs EXCEPT
                      ![i].pc = IF loaded.found THEN "done" ELSE "stage1",
                      ![i].loaded = loaded,
                      ![i].fileHash = cacheFile.codebaseHash]
    /\ UNCHANGED <<ws, folderOpen, cacheFile, clock, tree, treeText,
                   codebaseHash, scanned, prevScan, cacheTouched, filterCall,
                   progress, toolCall, cacheApiVars, pipeVars>>

\* Lines 480-497: Stage 1 returns and an analysis that is not empty is saved.
RaceStage1Returns(i, content, fc) ==
    /\ runs[i].pc = "stage1"
    /\ LET r == stage1Results(content, fc)
           args == SaveArgs(runs[i].hash, r.detailedAnalysis, r.features,
                            r.fileContents)
       IN  IF shouldSave(r.detailedAnalysis)
           THEN /\ cacheFile' = saveCache(cacheFile, folderOpen, clock,
                                          args.codebaseHash,
                                          args.detailedAnalysis,
                                          args.features, args.fileContents)
                /\ runs' = [runs EXCEPT
                              ![i].pc = "done",
                              ![i].args = args,
                              ![i].savedAt = clock,
                              ![i].seq = 1 + Cardinality(
                                            {j \in 1..2 : runs[j].seq > 0})]
           ELSE /\ runs' = [runs EXCEPT ![i].pc = "done"]
                /\ UNCHANGED cacheFile
    /\ UNCHANGED <<ws, folderOpen, clock, tree, treeText, codebaseHash,
                   scanned, prevScan, cacheTouched, filterCall, progress,
                   toolCall, cacheApiVars, pipeVars>>

\* Lines 498-507: Stage 1 throws; nothing is saved.
RaceStage1Throws(i) ==
    /\ runs[i].pc = "stage1"
    /\ runs' = [runs EXCEPT ![i].pc = "done"]
    /\ UNCHANGED <<ws, folderOpen, cacheFile, clock, tree, treeText,
                   codebaseHash, scanned, prevScan, cacheTouched, filterCall,
                   progress, toolCall, cacheApiVars, pipeVars>>

\* While the invocations wait, the workspace is edited.
RaceEdit(w) ==
    /\ \E i \in 1..2 : runs[i].pc # "done"
    /\ w # ws
    /\ ws' = w
    /\ UNCHANGED <<folderOpen, cacheFile, clock, tree, treeText, codebaseHash,
                   scanned, prevScan, cacheTouched, scanApiVars, cacheApiVars,
                   pipeVars>>

\* The record file at the start: none, or the record of an earlier run.
RaceFiles ==
    {NoCacheFile,
     CacheFile("object", md5(EmptyTreeText), Text("pretty", 3, {}),
               <<"React">>, {"f"}, 0)}

RaceWorkspaces == {EmptyWorkspace, WsFlat}

InitRace ==
    /\ ws = EmptyWorkspace
    /\ folderOpen = TRUE
    /\ cacheFile \in RaceFiles
    /\ clock = 0
    /\ cachedResult = Null
    /\ tree = <<>>
    /\ treeText = <<>>
    /\ codebaseHash = NoHash
    /\ scanned = FALSE
    /\ prevScan = NoScan
    /\ cacheTouched = FALSE
    /\ filterCall = NoFilterCall
    /\ progress = NoProgress
    /\ toolCall = NoToolCall
    /\ runs = NoRuns
    /\ lastCall = NoCall
    /\ remembered = NotRemembered
    /\ openai = TRUE
    /\ InitRun
    /\ savedRun = NoSavedRun

NextRace ==
    \/ \E i \in 1..2 : RaceStart(i)
    \/ \E i \in 1..2 : RaceCheck(i)
    \/ \E i \in 1..2, content \in {0, 2, 3}, fc \in SUBSET {"f"} :
          RaceStage1Returns(i, content, fc)
    \/ \E i \in 1..2 : RaceStage1Throws(i)
    \/ \E w \in RaceWorkspaces : RaceEdit(w)
    \/ Tick

SpecRace == InitRace /\ [][NextRace]_vars

(***************************************************************************)
(* Claims about the pipeline (checked under Spec and FairStage1).          *)
(***************************************************************************)
InStage1 == pc \in {"s1_initial", "s1_loop"}

\* The run follows one that saved a record, the workspace and the record
\* file being as that run left them.
FollowingRun ==
    /\ pc \notin {"idle", "check"}
    /\ savedRun.valid
    /\ savedRun.ws = ws
    /\ saves = 0

\* C2: a record that a run saved is returned by loadCache in a later run
\* only if the scan reports the same entries (names, kinds and depths) as it
\* did when the record was saved: a change of them changes the hash.
C2_StaleRecordNeverLoaded ==
    (pc # "idle" /\ cachedResult.found /\ savedRun.valid)
        => tree = savedRun.tree

\* C5: Stage 1 never sends more than one initial and maxToolCallIterations
\* follow-up requests, and once begun it ends, whatever the remote model
\* replies, provided every request and tool execution returns.
C5_Stage1Terminates ==
    /\ [](s1Requests <= 1 + maxToolCallIterations)
    /\ (InStage1 ~> ~InStage1)

\* Stage 1 has ended at the ceiling, the model having asked for a tool call
\* in each of its four responses.
C5_Witness ==
    /\ pc = "stage2"
    /\ loopExit = "ceiling after tools"
    /\ s1Requests = 1 + maxToolCallIterations
    /\ toolExecs >= 1 + maxToolCallIterations

\* C6: when the tool loop stops at the ceiling because the model kept asking
\* for tool calls, the content Stage 1 parses is that of the most recent
\* response (which had content or reasoning text), not of an earlier one.
C6_ParsesLatestContent ==
    (pc = "stage2" /\ loopExit = "ceiling after tools"
                   /\ ~blankSample(orEmpty(lastContent)))
        => stage1Content = lastContent

\* C7: within a run saveCache is called at most once, and only after Stage 1
\* ran in that run and returned an analysis that is not empty; on a cache
\* hit, without a client, when Stage 1 threw and when it ended with empty
\* content, the record file is as it was when the run began.
C7_SaveOnlyAfterStage1 ==
    pc # "idle" =>
        /\ saves > 0 =>
              (saves = 1 /\ s1Outcome = "analysis" /\ s1Requests >= 1
                         /\ openai /\ ~cachedResult.found)
        /\ (cachedResult.found \/ ~openai \/ s1Outcome # "analysis")
              => (saves = 0 /\ cacheFile = fileAtStart)

\* A run ends in which a tool was executed and Stage 1 threw, the record
\* file of an earlier run still being there.
C7_Witness ==
    /\ pc = "done"
    /\ s1Outcome = "threw"
    /\ toolExecs > 0
    /\ fileAtStart.kind = "object"
    /\ cacheFile = fileAtStart

\* C8 as stated: the run that follows a run that saved, on the unchanged
\* workspace, loads the record, sends no Stage 1 request, executes no tool
\* call, and calls Stage 2 with the detailedAnalysis and the features of the
\* record.
C8_Stage2GetsCachedFields ==
    FollowingRun =>
        /\ cachedResult.found
        /\ s1Requests = 0
        /\ toolExecs = 0
        /\ pc \in {"stage2", "s2_wait", "done", "failed"}
        /\ pc \in {"s2_wait", "done"} /\ openai =>
              stage2Input = [detailedAnalysis |-> cachedResult.detailedAnalysis,
                             features |-> cachedResult.features]

\* C8 amended: ... and calls Stage 2 with the detailedAnalysis of the record,
\* the file contents of the record put into it, and with the features of the
\* record or, when it has none, those found in package.json.
C8_Stage2GetsCachedAnalysisWithFiles ==
    FollowingRun =>
        /\ cachedResult.found
        /\ s1Requests = 0
        /\ toolExecs = 0
        /\ pc \in {"stage2", "s2_wait", "done", "failed"}
        /\ pc \in {"s2_wait", "done"} /\ openai =>
              /\ stage2Input.detailedAnalysis =
                    LET a == cachedResult.detailedAnalysis
                        fc == cachedResult.fileContents
                        \* a raw reply that is JSON is parsed and written
                        \* again by JSON.stringify when it gets the field
                        reprinted == fc # {} /\ a.k = "raw" /\ jsonParses(a.i)
                    IN  Text(IF reprinted THEN "pretty" ELSE a.k, a.i, fc)
              /\ stage2Input.features =
                    IF cachedResult.features # <<>>
                    THEN cachedResult.features
                    ELSE extractFeaturesFromPackageJson(
                            readPackageJson(ws, folderOpen).content)

\* The following run has asked Stage 2, the record holding the content of a
\* file that a tool call read.
C8_Witness ==
    /\ FollowingRun
    /\ pc = "s2_wait"
    /\ cachedResult.found
    /\ cachedResult.fileContents # {}

\* C9: a run that finds a valid record for the unchanged codebase sends no
\* completion request to the remote model at all.
C9_HitRunSendsNoRequest ==
    (pc # "idle" /\ cachedResult.found) => s1Requests + s2Requests = 0

\* C10: with a client configured every run of performAnalysis sends exactly
\* one Stage 2 request, after Stage 1 and the save have finished, and the
\* markdown of Stage 2 is never written to the record file.
C10_Stage2InEveryRun ==
    /\ (openai /\ pc \in {"done", "failed"}) => s2Requests = 1
    /\ s2Requests <= 1
    /\ s2Requests = 1 => pc \in {"s2_wait", "done"}
    /\ cacheFile.detailedAnalysis.k \notin
          {"polished", "polishedWithLocalDiagram", "localMarkdown"}

C12_FailsOnlyOnUnreadableRoot ==
    (folderOpen /\ pc \in {"done", "failed"}) =>
        ((pc = "failed") <=> (<<>> \in ws.unreadable))

\* C13: a run on an empty workspace root formats the tree as "The workspace
\* directory is empty.", sends no Stage 1 completion request, and Stage 1
\* gives the local fallback description.
C13_EmptyWorkspaceNoRequest ==
    (folderOpen /\ ws = EmptyWorkspace /\ pc # "idle") =>
        /\ treeText = EmptyTreeText
        /\ s1Requests = 0
        /\ (pc = "stage2" /\ ~cachedResult.found) =>
              detailedAnalysis.k = "fallback"

(***************************************************************************)
(* Claims about the scanner on example workspaces (checked under SpecScan) *)
(* and about the path filter (checked under SpecFilter).                   *)
(***************************************************************************)
\* The scan lists the entry with this path.
Listed(path) == \E i \in 1..Len(tree) : tree[i].path = path

\* C14: every entry the scan returns has a depth from 0 to 5, which is the
\* number of directories above it; however deep the workspace is nested, no
\* deeper entry is returned, and what lies within the bound is returned all
\* the same.
C14_DepthWithinBound ==
    scanned =>
        /\ \A i \in 1..Len(tree) :
              /\ tree[i].depth \in 0..5
              /\ tree[i].depth = Len(tree[i].path) - 1
        /\ (~ws.gitignore.exists /\ (\A e \in ws.entries :
                                        Range(e.path) \cap skipDirs = {}))
              => \A e \in ws.entries : Len(e.path) <= 6 => Listed(e.path)

\* A workspace with a file seven directories below the root has been
\* scanned: the six entries of depth 0 to 5 are returned.
C14_Witness ==
    /\ scanned
    /\ \E e \in ws.entries : Len(e.path) = 8
    /\ Len(tree) = 6
    /\ tree[6].depth = 5

wholeSegmentMatch(segment, pattern) ==
    regexTestFull(regexTokens(IF EndsWith(pattern, <<"/">>)
                              THEN Front(pattern) ELSE pattern),
                  segment)

\* C16: with patterns that are plain names, names with a trailing slash or
\* *.ext globs, shouldIgnore excludes a path if and only if one of its
\* segments matches one of the patterns as a whole segment.
C16_IgnoredIffWholeSegment ==
    (filterCall.op = "shouldIgnore"
     /\ Range(filterCall.patterns) \subseteq SimplePatterns) =>
        ((filterCall.outcome = "ignored") <=>
            \E k \in 1..Len(filterCall.patterns),
               i \in 1..Len(filterCall.relPath) :
                  wholeSegmentMatch(Chars(filterCall.relPath[i]),
                                    filterCall.patterns[k]))

\* C17: a pattern with a leading slash excludes a path only when the path
\* matches it from its first character on, never because a deeper segment
\* equals the pattern.
C17_RootAnchoredFromFirstSegment ==
    (filterCall.op = "matchesPattern"
     /\ StartsWith(filterCall.patterns[1], <<"/">>)
     /\ filterCall.outcome = "ignored") =>
        regexTestPrefix(regexTokens(Tail(filterCall.patterns[1])),
                        joinPath(filterCall.relPath))

\* C18: matchesPattern, and shouldIgnore which calls it, return a boolean
\* for every pattern and never raise.
C18_NoPatternRaises ==
    filterCall.op \in {"matchesPattern", "shouldIgnore"} =>
        filterCall.outcome \in {"ignored", "kept"}

\* C19: a scan that was given a progress callback and returned entries has
\* called it at least once, the last time with a total above 0.
C19_ProgressReported ==
    (scanned /\ progress.given /\ tree # <<>>) =>
        /\ Len(progress.reports) > 0
        /\ Last(progress.reports).total > 0

(***************************************************************************)
(* Claims about the parse of the Stage 1 response (checked under Spec).    *)
(***************************************************************************)
\* C20: the parse tries the fenced block, then the whole text as JSON, then
\* the label lines, then the keywords; so when the content Stage 1 parses is
\* JSON as a whole, the analysis is the parsed object written out again,
\* also when the text holds a fenced block that is not JSON.
C20_WholeJsonTextIsParsed ==
    (pc = "stage2" /\ s1Outcome = "analysis" /\ jsonParses(stage1Content)) =>
        detailedAnalysis = Text("pretty", stage1Content, {})

(***************************************************************************)
(* Claims about the replies Stage 1 accepts (checked under Spec).          *)
(***************************************************************************)
\* C23: a reply of the remote model without tool calls that is shorter than
\* BriefLimit characters and holds no pair of braces never ends Stage 1: in
\* whichever round it arrives, the initial response included, a re-prompt for
\* the final structured answer follows it.
C23_BriefReplyNeverEndsStage1 ==
    (pc = "stage2" /\ loopExit \in {"no tool calls", "final", "empty",
                                    "ceiling after brief"})
        => ~(isBriefMessage(orEmpty(lastContent))
             /\ ~blankSample(orEmpty(lastContent)))

\* C24: when a round of the tool loop brings neither tool calls nor content
\* that is not blank, the loop ends and Stage 1 returns an empty analysis
\* without features, so that nothing is saved and the local fallback
\* description is used.
C24_EmptyRoundReturnsEmpty ==
    (pc = "stage2" /\ loopExit = "empty")
        => /\ falsy(detailedAnalysis)
           /\ features = <<>>
           /\ saves = 0
           /\ cacheFile = fileAtStart

(***************************************************************************)
(* Claims about what performAnalysis returns (checked under Spec).         *)
(***************************************************************************)
\* C26: the fromCache field of the result is true exactly when loadCache
\* returned a record in the run, Stage 1 being skipped, and false when
\* Stage 1 or the local fallback made the analysis.
C26_FromCacheTellsHit ==
    pc = "done" => (result.fromCache <=> cachedResult.found)

\* The markdown holds the opener of a mermaid block: the reply of Stage 2
\* when it is returned as it came, always when the local diagram was put
\* after it or the local markdown was made.
hasMermaidOpener(md) ==
    CASE md.k = "polished" ->
            Includes(Trim(SampleChars(md.i)),
                     <<Fence, "m", "e", "r", "m", "a", "i", "d">>)
      [] md.k \in {"polishedWithLocalDiagram", "localMarkdown"} -> TRUE
      [] OTHER -> FALSE

\* C27: whenever performAnalysis returns, its markdown holds the opener of a
\* mermaid block: when the reply of Stage 2 has a diagram, when it has none,
\* when the request of Stage 2 throws or brings no content, and when no
\* client is configured.
C27_MarkdownHasMermaid ==
    pc = "done" => hasMermaidOpener(result.markdown)

\* A run ends whose Stage 2 reply had no diagram.
C27_Witness ==
    /\ pc = "done"
    /\ openai
    /\ result.markdown.k = "polishedWithLocalDiagram"

\* C30: for a workspace and a Stage 1 result that stay the same, Stage 2 is
\* called with the same detailedAnalysis and features on the run that finds
\* the record as on the run that wrote it, also when the record holds the
\* contents of files that tool calls read.
C30_HitRunGivesStage2TheSame ==
    (/\ FollowingRun
     /\ cachedResult.found
     /\ pc \in {"s2_wait", "done"}
     /\ stage2Input # NoStage2Input
     /\ savedRun.stage2Input # NoStage2Input)
        => stage2Input = savedRun.stage2Input

(***************************************************************************)
(* Claims about the text of the tree (checked under SpecTree).             *)
(***************************************************************************)
\* The tokens of line n of a text, the line feed left out.
lineOf(text, n) ==
    LET feeds == {p \in 1..Len(text) : text[p] = NL}
        before(p) == Cardinality({q \in feeds : q < p})
        first == IF n = 1 THEN 1
                 ELSE 1 + CHOOSE p \in feeds : before(p) = n - 2
        last == (CHOOSE p \in feeds : before(p) = n - 1) - 1
    IN  SubSeq(text, first, last)

\* Item j is a later sibling of item i: it has the depth of i and no item
\* between them lies above that depth.
laterSibling(treeItems, i, j) ==
    /\ j > i
    /\ treeItems[j].depth = treeItems[i].depth
    /\ \A k \in (i + 1)..(j - 1) : treeItems[k].depth > treeItems[i].depth

\* C25: in the text formatTree makes, the line of an entry at depth k begins
\* with k indentation units, one for each ancestor depth, then has the
\* last-child connector if the entry has no later sibling under its parent
\* and the mid-child connector if it has one.
C25_OneUnitPerAncestorDepth ==
    (scanned /\ tree # <<>>) =>
        \A i \in 1..Len(tree) :
            LET line == lineOf(treeText, i + 2)
                k == tree[i].depth
            IN  /\ Len(line) > k
                /\ \A d \in 1..k : line[d] \in {VBar, Blank}
                /\ line[k + 1] =
                      IF \E j \in 1..Len(tree) : laterSibling(tree, i, j)
                      THEN MidChild ELSE LastChild

(***************************************************************************)
(* Claims about the file tool (checked under SpecTool).                    *)
(***************************************************************************)
\* The segments a path of the tool leads to, from the root of the disk.
targetOf(file_path) ==
    resolveDots((IF isAbsolute(file_path) THEN <<>>
                 ELSE splitPath(WorkspacePath)) \o splitPath(file_path),
                <<>>, TRUE)

\* What lies there: a path with a trailing separator names directories only.
kindAt(file_path) ==
    LET found == {n \in Disk : splitPath(n.path) = targetOf(file_path)}
    IN  IF found = {} THEN "missing"
        ELSE LET n == CHOOSE n \in found : TRUE
             IN  IF Last(file_path) = "/" /\ n.kind # "directory"
                 THEN "missing" ELSE n.kind

\* The target lies beneath the workspace root, or outside it.
beneathRoot(segs) ==
    Len(segs) > Len(splitPath(WorkspacePath))
        /\ SubSeq(segs, 1, Len(splitPath(WorkspacePath)))
              = splitPath(WorkspacePath)

outsideRoot(segs) == ~beneathRoot(segs) /\ segs # splitPath(WorkspacePath)

\* C21: read_file_content returns the text of a file only for a path,
\* relative to the workspace or absolute, that leads to an existing regular
\* text file inside the workspace root; for a path that leads outside the
\* root, with ".." segments or without, it returns the error "outside of the
\* workspace" and no text, and inside the root a missing path, a directory
\* and a binary file get the errors "not found", "not a file" and "binary
\* file".
C21_FileTextOnlyInsideWorkspace ==
    (/\ toolCall.functionName = "read_file_content"
     /\ toolCall.result.error # "pending"
     /\ toolCall.given /\ toolCall.file_path # <<>> /\ folderOpen) =>
        LET segs == targetOf(toolCall.file_path)
            kind == kindAt(toolCall.file_path)
            r == toolCall.result
        IN  /\ r.success =>
                  /\ beneathRoot(segs)
                  /\ kind = "file"
                  /\ splitPath(r.file) = segs
            /\ ~r.success => r.file = <<>>
            /\ outsideRoot(segs) =>
                  r.error = "Access denied: Path is outside of the workspace."
            /\ beneathRoot(segs) =>
                  r.error =
                     CASE kind = "missing" -> "File not found"
                       [] kind = "directory" -> "Path is not a file."
                       [] kind = "binary" ->
                             "Binary file detected; cannot display as text."
                       [] kind = "unreadable" -> "Error reading file"
                       [] OTHER -> ""

\* The tool was asked for ../x/a, a file that exists next to the workspace,
\* and refused it.
C21_Witness ==
    /\ toolCall.functionName = "read_file_content"
    /\ toolCall.given
    /\ folderOpen
    /\ toolCall.file_path = <<".", ".", "/", "x", "/", "a">>
    /\ kindAt(toolCall.file_path) = "file"
    /\ toolCall.result.error =
          "Access denied: Path is outside of the workspace."

(***************************************************************************)
(* Claims about invocations that run at once (checked under SpecRace).     *)
(***************************************************************************)
\* C22: when two invocations of the pipeline on one workspace interleave,
\* the record file after both have ended holds the whole record that the
\* saveCache which ran last wrote, and no mix of the fields of two records;
\* and every loadCache on the way returned nothing or a record whose
\* codebaseHash is the hash it was called with.
C22_LastSaveWinsWhole ==
    /\ (\A i \in 1..2 : runs[i].pc = "done") =>
          \A i \in 1..2 :
             (runs[i].seq > 0 /\ \A j \in 1..2 : runs[j].seq <= runs[i].seq)
                => cacheFile = CacheFile("object", runs[i].args.codebaseHash,
                                         runs[i].args.detailedAnalysis,
                                         runs[i].args.features,
                                         runs[i].args.fileContents,
                                         runs[i].savedAt)
    /\ \A i \in 1..2 :
          runs[i].loaded.found => runs[i].fileHash = runs[i].hash

\* Both invocations computed the same hash, missed the cache and saved, at
\* different times and with different fields.
C22_Witness ==
    /\ \A i \in 1..2 : runs[i].pc = "done" /\ runs[i].seq > 0
    /\ runs[1].hash = runs[2].hash
    /\ runs[1].args # runs[2].args
    /\ runs[1].savedAt # runs[2].savedAt

(***************************************************************************)
(* Claims about the conversation of Stage 1 (checked under SpecStage1 and  *)
(* Spec).                                                                  *)
(***************************************************************************)
\* Message a carries tool calls and is followed at once by one tool result
\* for each of them, in their order and with their ids, and by no further
\* tool result.
answeredInOrder(messages, a) ==
    LET ids == messages[a].tool_calls
    IN  /\ a + Len(ids) <= Len(messages)
        /\ \A k \in 1..Len(ids) :
              /\ messages[a + k].role = "tool"
              /\ messages[a + k].tool_call_id = ids[k]
        /\ (a + Len(ids) < Len(messages))
              => messages[a + Len(ids) + 1].role # "tool"

\* C28: in the message list of every completion request of Stage 1, an
\* assistant message that carries tool calls is followed at once by one
\* tool result for each tool call, in the same order and with the id of the
\* call, before any other message: after any number of tool rounds and of
\* re-prompts for brief replies, also when a tool reports an error.
C28_ToolResultsFollowTheirCalls ==
    InStage1 =>
        \A a \in 1..Len(currentMessages) :
            /\ currentMessages[a].carried
            /\ (currentMessages[a].role = "assistant"
                /\ currentMessages[a].tool_calls # <<>>)
                  => answeredInOrder(currentMessages, a)
            /\ currentMessages[a].role = "tool" =>
                  \E b \in 1..(a - 1), k \in 1..MaxToolCalls + 1 :
                     /\ b + k = a
                     /\ currentMessages[b].role = "assistant"
                     /\ k <= Len(currentMessages[b].tool_calls)

\* The third follow-up request is in flight; its messages hold a response
\* with two tool calls and a brief reply with its re-prompt.
C28_Witness ==
    /\ pc = "s1_loop"
    /\ iteration = 2
    /\ \E a \in 1..Len(currentMessages) :
          Len(currentMessages[a].tool_calls) = MaxToolCalls + 1
    /\ \E a \in 1..Len(currentMessages) - 1 :
          /\ currentMessages[a].role = "assistant"
          /\ currentMessages[a].tool_calls = <<>>
          /\ currentMessages[a + 1].role = "user"

\* C29: the result of every tool call Stage 1 executes is sent to the remote
\* model: once the tool results of a round are put on the conversation, a
\* later request carries them, so that when Stage 1 returns no tool result
\* is left that no request has carried.
C29_EveryToolResultIsSent ==
    (pc = "stage2" /\ s1Outcome # "threw") =>
        \A a \in 1..Len(currentMessages) :
            currentMessages[a].role = "tool" => currentMessages[a].carried

====
